---- MODULE Spec2Model ----
(***************************************************************************)
(* Cross-source session reconciliation of warwick-sst-dashboard:           *)
(* fuzzy_match_sessions and get_corrected_session_stats                    *)
(* (corrected_matching_helpers.py) and materialize_session_data            *)
(* (materialize_matching.py).                                              *)
(*                                                                         *)
(* A run starts with the two session tables as the warehouses returned     *)
(* them (one row per ga_session_id after drop_duplicates), walks the       *)
(* matching loop one SST row per step, returns the three lists, and, when  *)
(* the caller was materialize_session_data, goes on to the statistics and  *)
(* the cache files.  Two further specifications cover what precedes and    *)
(* surrounds it: the Direct fetch of fuzzy_match_sessions (the grouped     *)
(* BigQuery query and drop_duplicates) and app.run_athena_query (the       *)
(* bounded wait of the dashboard for an Athena query).                     *)
(***************************************************************************)
EXTENDS Integers, Sequences, FiniteSets, TLC

(***************************************************************************)
(* Bounds of the model.                                                    *)
(***************************************************************************)
\* Rows per session table (SST and Direct alike).
MaxRows == 2

\* Events in the BigQuery export.
MaxEvents == 3

(***************************************************************************)
(* Microsecond arithmetic.  session_start_ts is a count of microseconds    *)
(* since the epoch (about 1.7 * 10^15 in 2026), which pandas holds in an   *)
(* int64 without overflow.  The model holds the count v as the pair        *)
(* [s, us] with v = s * MicrosPerSecond + us and 0 <= us < MicrosPerSecond, *)
(* so that the arithmetic below is the exact integer arithmetic of the     *)
(* code.                                                                   *)
(***************************************************************************)
MicrosPerSecond == 1000000
SecondsPerDay == 86400

Micros(s, us) ==
  [s |-> s + (us \div MicrosPerSecond), us |-> us % MicrosPerSecond]

\* n * 1000000
SecondsToMicros(n) == Micros(n, 0)

MicrosAdd(a, b) == Micros(a.s + b.s, a.us + b.us)

MicrosSub(a, b) == Micros(a.s - b.s, a.us - b.us)

\* a <= b
MicrosLeq(a, b) == a.s < b.s \/ (a.s = b.s /\ a.us <= b.us)

\* abs(a): the pair is negative exactly when its s is
MicrosAbs(a) == IF a.s < 0 THEN Micros(-a.s, -a.us) ELSE a

\* v // 1000000
MicrosFloorSeconds(a) == a.s

(***************************************************************************)
(* Calendar dates.  A YYYYMMDD string is held as [year, month, day];       *)
(* DayNumber is the number of days from 1970-01-01 to that date, the       *)
(* value pandas' .dt.date stands for.                                      *)
(***************************************************************************)
Date(y, m, d) == [year |-> y, month |-> m, day |-> d]

DayNumber(date) ==
  LET y   == IF date.month <= 2 THEN date.year - 1 ELSE date.year
      era == y \div 400
      yoe == y - era * 400
      mp  == (date.month + 9) % 12
      doy == ((153 * mp + 2) \div 5) + date.day - 1
      doe == yoe * 365 + (yoe \div 4) - (yoe \div 100) + doy
  IN  era * 146097 + doe - 719468

\* Midnight UTC of a date plus an offset, in microseconds.
Instant(date, sec, us) == Micros(DayNumber(date) * SecondsPerDay + sec, us)

\* pd.to_datetime(ts // 1000000, unit='s').dt.date
DateOf(ts) == MicrosFloorSeconds(ts) \div SecondsPerDay

(***************************************************************************)
(* Parameters and their defaults.                                          *)
(***************************************************************************)
DefaultDateStart == Date(2026, 1, 6)
DefaultDateEnd == Date(2026, 1, 13)
DefaultTimeWindowSeconds == 300

(***************************************************************************)
(* Session rows.  A fetched row carries the columns the matcher and the    *)
(* statistics read; device_browser, traffic_source and event_count are     *)
(* fetched but never read afterwards and are left out.                     *)
(***************************************************************************)
\* A cell holding SQL NULL, and a cell holding the number n.
NullCell == <<>>
Cell(n) == <<n>>

\* A variable that holds no value yet (Python's unbound name or None).
NoValue == [none |-> TRUE]
HasValue(x) == "none" \notin DOMAIN x

FetchedRow(ts, dev, os, geo, purchase, eng) ==
  [session_start_ts |-> ts, device_category |-> dev,
   device_operating_system |-> os, geo_country |-> geo,
   has_purchase |-> purchase, engagement_time_msec |-> eng]

\* The tables of length 0..MaxRows over a set of rows; ga_session_id is
\* given by position (idBase + 1, idBase + 2, ...), so it is unique within a
\* table, as after drop_duplicates(subset='ga_session_id', keep='first').
TablesOver(rows, idBase) ==
  UNION { { [i \in 1..n |-> [ga_session_id |-> idBase + i] @@ f[i]] :
              f \in [1..n -> rows] } : n \in 0..MaxRows }

\* SST sessions are numbered 1, 2, ... and Direct sessions 101, 102, ...
SstTables(rows) == TablesOver(rows, 0)
DirectTables(rows) == TablesOver(rows, 100)

\* bq_df['matched_to_sst'] = False; bq_df['session_category'] = 'Direct-only'
InitDirect(table) ==
  [i \in 1..Len(table) |->
     [source |-> "Direct", matched_to_sst |-> FALSE,
      session_category |-> "Direct-only"] @@ table[i]]

\* sst_df['matched_to_direct'] = False; sst_df['session_category'] = 'SST-only'
InitSst(table) ==
  [i \in 1..Len(table) |->
     [source |-> "SST", matched_to_direct |-> FALSE,
      session_category |-> "SST-only"] @@ table[i]]

(***************************************************************************)
(* The inputs the model explores.                                          *)
(***************************************************************************)
TimeWindows == {0, DefaultTimeWindowSeconds}

\* Start timestamps around the default window.  An SST session starts
\* 300 s or 300 s + 1 us after midnight; a Direct session at midnight,
\* 300 s after it, or 600 s + 1 us after it.  So a Direct session is
\* exactly 300 s before or after an SST session (on the bounds of the
\* default window), 300 s + 1 us before or after it (just outside), at the
\* same microsecond, or 1 us before it (outside the window 0).
SstMatchTimes ==
  { Instant(DefaultDateStart, DefaultTimeWindowSeconds, 0),
    Instant(DefaultDateStart, DefaultTimeWindowSeconds, 1) }

DirectMatchTimes ==
  { Instant(DefaultDateStart, 0, 0),
    Instant(DefaultDateStart, DefaultTimeWindowSeconds, 0),
    Instant(DefaultDateStart, 2 * DefaultTimeWindowSeconds, 1) }

\* device_category and geo_country.  Between an SST and a Direct row they
\* agree on both, differ in device_category only, differ in geo_country
\* only, or differ in both.
SstDeviceCountry ==
  { <<"desktop", "AU">>, <<"mobile", "AU">>, <<"desktop", "NZ">> }

DirectDeviceCountry == { <<"desktop", "AU">>, <<"desktop", "NZ">> }

SstMatchRows ==
  { FetchedRow(ts, dc[1], "Windows", dc[2], 0, Cell(1000)) :
      ts \in SstMatchTimes, dc \in SstDeviceCountry }

DirectMatchRows ==
  { FetchedRow(ts, dc[1], "Windows", dc[2], 0, Cell(1000)) :
      ts \in DirectMatchTimes, dc \in DirectDeviceCountry }

\* A direct call of fuzzy_match_sessions with window w on the tables a, b.
FuzzyCall(w, a, b) ==
  [entry |-> "fuzzy_match_sessions", date_start |-> DefaultDateStart,
   date_end |-> DefaultDateEnd, time_window_seconds |-> w,
   sst |-> a, direct |-> b]

\* The scenario of the specification, its timestamps read as microsecond
\* values and as seconds.
ScenarioTime(t, unit) == IF unit = "us" THEN Micros(0, t) ELSE Micros(t, 0)

ScenarioA(unit) ==
  << [ga_session_id |-> 1] @@
       FetchedRow(ScenarioTime(1000, unit), "desktop", "Windows", "AU", 0, Cell(1000)),
     [ga_session_id |-> 2] @@
       FetchedRow(ScenarioTime(5000, unit), "mobile", "Android", "AU", 0, Cell(1000)) >>

ScenarioB(unit) ==
  << [ga_session_id |-> 101] @@
       FetchedRow(ScenarioTime(1003, unit), "desktop", "Windows", "AU", 0, Cell(1000)),
     [ga_session_id |-> 102] @@
       FetchedRow(ScenarioTime(9000, unit), "desktop", "Windows", "NZ", 0, Cell(1000)) >>

ScenarioCalls ==
  { FuzzyCall(300, ScenarioA(unit), ScenarioB(unit)) : unit \in {"us", "s"} }

\* Calls with a tie between different timestamps: one SST session 300 s
\* after midnight and two Direct sessions of its device and country, one
\* at midnight and one 600 s after it, in either table order.
TieCalls ==
  { FuzzyCall(DefaultTimeWindowSeconds,
      << [ga_session_id |-> 1] @@
           FetchedRow(Instant(DefaultDateStart, DefaultTimeWindowSeconds, 0),
                      "desktop", "Windows", "AU", 0, Cell(1000)) >>,
      << [ga_session_id |-> 101] @@
           FetchedRow(Instant(DefaultDateStart, first_offset, 0),
                      "desktop", "Windows", "AU", 0, Cell(1000)),
         [ga_session_id |-> 102] @@
           FetchedRow(Instant(DefaultDateStart,
                              2 * DefaultTimeWindowSeconds - first_offset, 0),
                      "desktop", "Windows", "AU", 0, Cell(1000)) >>) :
      first_offset \in {0, 2 * DefaultTimeWindowSeconds} }

\* Calls in which the two sources spell the country differently: one SST
\* session and one Direct session at the same microsecond on the same
\* device, the SST country in lower case or padded with blanks.
CountryCaseCalls ==
  { FuzzyCall(DefaultTimeWindowSeconds,
      << [ga_session_id |-> 1] @@
           FetchedRow(Instant(DefaultDateStart, DefaultTimeWindowSeconds, 0),
                      "desktop", "Windows", sst_country, 0, Cell(1000)) >>,
      << [ga_session_id |-> 101] @@
           FetchedRow(Instant(DefaultDateStart, DefaultTimeWindowSeconds, 0),
                      "desktop", "Windows", "AU", 0, Cell(1000)) >>) :
      sst_country \in {"au", " AU "} }

\* Calls of materialize_session_data for 2026-01-06 .. 2026-01-07; the
\* matching then runs with the default window.  Sessions start at 23:58 of
\* the first day or at 00:01 of the second, 180 s apart, and each warehouse
\* returns at least one session.
StatsDateStart == Date(2026, 1, 6)
StatsDateEnd == Date(2026, 1, 7)

StatsTimes ==
  { Instant(StatsDateStart, SecondsPerDay - 120, 0),
    Instant(StatsDateEnd, 60, 0) }

\* device_category, device_operating_system, has_purchase,
\* engagement_time_msec (NullCell: SQL NULL, fetched as '' or None).
SstStatsProfiles ==
  { <<"desktop", "Windows", 1, Cell(2000)>>,
    <<"desktop", "Macintosh", 0, NullCell>> }

DirectStatsProfiles ==
  { <<"desktop", "Windows", 0, Cell(1000)>>,
    <<"mobile", "Android", 1, NullCell>> }

SstStatsRows ==
  { FetchedRow(ts, p[1], p[2], "AU", p[3], p[4]) :
      ts \in StatsTimes, p \in SstStatsProfiles }

DirectStatsRows ==
  { FetchedRow(ts, p[1], p[2], "AU", p[3], p[4]) :
      ts \in StatsTimes, p \in DirectStatsProfiles }

\* A call of materialize_session_data on the tables a, b.
MaterializeCall(a, b) ==
  [entry |-> "materialize_session_data", date_start |-> StatsDateStart,
   date_end |-> StatsDateEnd, time_window_seconds |-> DefaultTimeWindowSeconds,
   sst |-> a, direct |-> b]

(***************************************************************************)
(* State.                                                                  *)
(***************************************************************************)
VARIABLES
  call,       \* the call being served: entry point, parameters, and the
              \* tables the two warehouses return for it
  sst_df,     \* the SST table with its matched flag and category label
  bq_df,      \* the Direct table with its matched flag and category label
  idx,        \* position of the matching loop in sst_df
  matches,    \* the list of (sst id, direct id) pairs
  result,     \* what fuzzy_match_sessions returned, NoValue before
  stats,      \* what get_corrected_session_stats returned, NoValue before
  cache,      \* the files of CACHE_DIR, each with the call that wrote it
  written,    \* number of artifacts materialize_session_data has written
  raised,     \* the exception that ended the call, "none" if none
  pc,         \* "match", "returned", "stats", "done", "error"
  run,        \* 1 for the first call, 2 for its repetition
  first,      \* the outcome of the first call, NoValue during it
  bq_events,  \* the events of the BigQuery export that pass the WHERE and
              \* HAVING conditions of bq_query, NoValue where the tables
              \* are taken as fetched
  bq_rows,    \* the rows bq_query returned, in the order returned
  query_execution_id, \* app.run_athena_query: the id Athena gave the query
  query_state,     \* the state of the query at Athena
  state,           \* the state the last get_query_execution reported
  clock,           \* time.time(), in ticks of half a second
  start_time,      \* time.time() when the wait began
  timeout_seconds, \* the parameter of run_athena_query
  api_calls,       \* the Athena API calls made, in order
  apc,             \* position in run_athena_query: "idle", "start",
                   \* "poll", "check_timeout", "get_results", "returned",
                   \* "raised"
  reader,          \* the function whose Athena fetch runs, "none" if none
  pages,           \* the pages Athena holds for the query, NoValue before
                   \* the first get_query_results
  next_token,      \* the NextToken of the last page read, NoValue for None
  columns,         \* run_athena_query: the header as [names |-> list],
                   \* NoValue for None
  data,            \* the rows collected (athena_rows, data)
  hcall,           \* the call of a function without side effects: its
                   \* name and arguments, NoValue if none
  hout             \* what that call returned, NoValue before it returns

\* The variables of the reconciliation other than raised.
session_vars == <<call, sst_df, bq_df, idx, matches, result, stats, cache,
                  written, pc, run, first>>

\* The variables of the BigQuery fetch.
fetch_vars == <<bq_events, bq_rows>>

\* The variables of run_athena_query.
athena_vars == <<query_execution_id, query_state, state, clock, start_time,
                 timeout_seconds, api_calls, apc>>

\* The variables of a paginated read of Athena results.
page_vars == <<reader, pages, next_token, columns, data>>

\* The variables of a call without side effects.
helper_vars == <<hcall, hout>>

vars == <<call, sst_df, bq_df, idx, matches, result, stats, cache, written,
          raised, pc, run, first, fetch_vars, athena_vars, page_vars,
          helper_vars>>

time_window_seconds == call.time_window_seconds

\* Variant: the window left in seconds, the factor 1000000 forgotten.
time_window_micros_unscaled == Micros(0, time_window_seconds)

\* time_window_micros = time_window_seconds * 1000000
time_window_micros == SecondsToMicros(time_window_seconds)

\* The state when the matching loop is entered: both tables fetched, the
\* flags False, the labels 'SST-only' and 'Direct-only', no pair yet.
Start(c) ==
  /\ call = c
  /\ sst_df = InitSst(c.sst)
  /\ bq_df = InitDirect(c.direct)
  /\ idx = 1
  /\ matches = <<>>
  /\ result = NoValue
  /\ stats = NoValue
  /\ cache = {}
  /\ written = 0
  /\ raised = "none"
  /\ pc = "match"
  /\ run = 1
  /\ first = NoValue

\* The calls explored with the windows of a set.
InitWith(windows) ==
  \/ \E w \in windows :
       \E a \in SstTables(SstMatchRows), b \in DirectTables(DirectMatchRows) :
         Start(FuzzyCall(w, a, b))
  \/ \E c \in ScenarioCalls \cup TieCalls \cup CountryCaseCalls : Start(c)
  \/ \E a \in SstTables(SstStatsRows) \ {<<>>},
        b \in DirectTables(DirectStatsRows) \ {<<>>} :
         Start(MaterializeCall(a, b))

\* The tables are taken as fetched: no BigQuery events in the model.
FetchIdle ==
  /\ bq_events = NoValue
  /\ bq_rows = NoValue

\* run_athena_query is not running.
AthenaIdle ==
  /\ query_execution_id = "none"
  /\ query_state = "none"
  /\ state = "none"
  /\ clock = 0
  /\ start_time = 0
  /\ timeout_seconds = 0
  /\ api_calls = <<>>
  /\ apc = "idle"

\* No paginated read is running, and no call without side effects.
PageIdle ==
  /\ reader = "none"
  /\ pages = NoValue
  /\ next_token = NoValue
  /\ columns = NoValue
  /\ data = <<>>

HelperIdle ==
  /\ hcall = NoValue
  /\ hout = NoValue

Init ==
  InitWith(TimeWindows) /\ FetchIdle /\ AthenaIdle /\ PageIdle /\ HelperIdle

\* The calls whose repetition is explored: those with the default window.
InitRerun ==
  /\ InitWith({DefaultTimeWindowSeconds})
  /\ FetchIdle /\ AthenaIdle /\ PageIdle /\ HelperIdle

(***************************************************************************)
(* The matching loop: one step per SST row.                                *)
(***************************************************************************)
\* Variant: the ~bq_df['matched_to_sst'] condition left out.
CandidatesInWindow_rematch(df, sst_ts, w) ==
  { j \in 1..Len(df) :
      /\ MicrosLeq(MicrosSub(sst_ts, w), df[j].session_start_ts)
      /\ MicrosLeq(df[j].session_start_ts, MicrosAdd(sst_ts, w)) }

\* Variant: the lower bound sst_ts - w left out.
CandidatesInWindow_no_lower_bound(df, sst_ts, w) ==
  { j \in 1..Len(df) :
      /\ ~df[j].matched_to_sst
      /\ MicrosLeq(df[j].session_start_ts, MicrosAdd(sst_ts, w)) }

\* Variant: the bounds of the window exclusive (> and < for >= and <=).
CandidatesInWindow_exclusive_bounds(df, sst_ts, w) ==
  { j \in 1..Len(df) :
      /\ ~df[j].matched_to_sst
      /\ MicrosSub(sst_ts, w) # df[j].session_start_ts
      /\ MicrosLeq(MicrosSub(sst_ts, w), df[j].session_start_ts)
      /\ df[j].session_start_ts # MicrosAdd(sst_ts, w)
      /\ MicrosLeq(df[j].session_start_ts, MicrosAdd(sst_ts, w)) }

\* Unmatched Direct rows with sst_ts - w <= session_start_ts <= sst_ts + w.
CandidatesInWindow(df, sst_ts, w) ==
  { j \in 1..Len(df) :
      /\ ~df[j].matched_to_sst
      /\ MicrosLeq(MicrosSub(sst_ts, w), df[j].session_start_ts)
      /\ MicrosLeq(df[j].session_start_ts, MicrosAdd(sst_ts, w)) }

\* Variant: the geo_country condition left out.
FilterDeviceCountry_device_only(df, candidates, sst_row) ==
  { j \in candidates : df[j].device_category = sst_row.device_category }

\* Those of equal device_category and geo_country.
FilterDeviceCountry(df, candidates, sst_row) ==
  { j \in candidates :
      /\ df[j].device_category = sst_row.device_category
      /\ df[j].geo_country = sst_row.geo_country }

\* candidates['ts_diff'] = abs(candidates['session_start_ts'] - sst_ts)
ts_diff(df, j, sst_ts) == MicrosAbs(MicrosSub(df[j].session_start_ts, sst_ts))

\* Variant: any row of least ts_diff, whichever the sort happens to put first.
best_match_any_tie(df, candidates, sst_ts) ==
  { j \in candidates :
      \A k \in candidates :
        MicrosLeq(MicrosAbs(MicrosSub(df[j].session_start_ts, sst_ts)),
                  MicrosAbs(MicrosSub(df[k].session_start_ts, sst_ts))) }

\* Variant: nsmallest(1, 'ts_diff', keep='last'), the last of equal values.
best_match_last_tie(df, candidates, sst_ts) ==
  { j \in candidates :
      \A k \in candidates :
        /\ MicrosLeq(MicrosAbs(MicrosSub(df[j].session_start_ts, sst_ts)),
                     MicrosAbs(MicrosSub(df[k].session_start_ts, sst_ts)))
        /\ (MicrosAbs(MicrosSub(df[k].session_start_ts, sst_ts))
              = MicrosAbs(MicrosSub(df[j].session_start_ts, sst_ts)) => k <= j) }

\* Variant: nlargest in place of nsmallest, the farthest candidate.
best_match_farthest(df, candidates, sst_ts) ==
  { j \in candidates :
      \A k \in candidates :
        /\ MicrosLeq(MicrosAbs(MicrosSub(df[k].session_start_ts, sst_ts)),
                     MicrosAbs(MicrosSub(df[j].session_start_ts, sst_ts)))
        /\ (MicrosAbs(MicrosSub(df[k].session_start_ts, sst_ts))
              = MicrosAbs(MicrosSub(df[j].session_start_ts, sst_ts)) => j <= k) }

\* Variant: candidates.iloc[0], the nsmallest left out.
best_match_first_row(df, candidates, sst_ts) ==
  { j \in candidates : \A k \in candidates : j <= k }

\* candidates.nsmallest(1, 'ts_diff').iloc[0]: the rows this can deliver.
\* nsmallest keeps the first of equal values (keep='first'), so it is the
\* one row of least ts_diff that comes first in the table.
best_match(df, candidates, sst_ts) ==
  { j \in candidates :
      \A k \in candidates :
        /\ MicrosLeq(ts_diff(df, j, sst_ts), ts_diff(df, k, sst_ts))
        /\ (ts_diff(df, k, sst_ts) = ts_diff(df, j, sst_ts) => j <= k) }

\* Variant: the flag set, the 'Both' label forgotten.
MarkDirect_flag_only(df, j) == [df EXCEPT ![j].matched_to_sst = TRUE]

\* Variant: the flag column assigned as a whole,
\* bq_df['matched_to_sst'] = (bq_df.index == best_match.name).
MarkDirect_exclusive(df, j) ==
  [k \in 1..Len(df) |->
     IF k = j
     THEN [df[k] EXCEPT !.matched_to_sst = TRUE, !.session_category = "Both"]
     ELSE [df[k] EXCEPT !.matched_to_sst = FALSE]]

\* bq_df.loc[best_match.name, ...] = True / 'Both'
MarkDirect(df, j) ==
  [df EXCEPT ![j].matched_to_sst = TRUE, ![j].session_category = "Both"]

\* Variant: the .loc[idx] forgotten, both columns assigned as a whole.
MarkSst_whole_column(df, i) ==
  [k \in 1..Len(df) |->
     [df[k] EXCEPT !.matched_to_direct = TRUE, !.session_category = "Both"]]

\* Variant: the label set, the matched_to_direct flag forgotten.
MarkSst_label_only(df, i) == [df EXCEPT ![i].session_category = "Both"]

\* sst_df.loc[idx, ...] = True / 'Both'
MarkSst(df, i) ==
  [df EXCEPT ![i].matched_to_direct = TRUE, ![i].session_category = "Both"]

MatchStep ==
  /\ pc = "match"
  /\ idx <= Len(sst_df)
  /\ LET sst_row    == sst_df[idx]
         sst_ts     == sst_row.session_start_ts
         in_window  == CandidatesInWindow(bq_df, sst_ts, time_window_micros)
         candidates == FilterDeviceCountry(bq_df, in_window, sst_row)
     IN  \/ /\ in_window = {}
            /\ idx' = idx + 1
            /\ UNCHANGED <<sst_df, bq_df, matches>>
         \/ /\ in_window # {}
            /\ candidates = {}
            /\ idx' = idx + 1
            /\ UNCHANGED <<sst_df, bq_df, matches>>
         \/ /\ candidates # {}
            /\ \E j \in best_match(bq_df, candidates, sst_ts) :
                 /\ matches' = Append(matches,
                                 <<sst_row.ga_session_id, bq_df[j].ga_session_id>>)
                 /\ bq_df' = MarkDirect(bq_df, j)
                 /\ sst_df' = MarkSst(sst_df, idx)
            /\ idx' = idx + 1
  /\ UNCHANGED <<call, result, stats, cache, written, raised, pc, run, first>>
  /\ UNCHANGED <<fetch_vars, athena_vars, page_vars, helper_vars>>

\* sst_df[~sst_df['matched_to_direct']]['ga_session_id'].tolist()
UnmatchedSst(df) ==
  LET keep(r) == ~r.matched_to_direct
      ids == [i \in 1..Len(df) |-> df[i]]
  IN  [i \in 1..Len(SelectSeq(ids, keep)) |-> SelectSeq(ids, keep)[i].ga_session_id]

\* Variant: the negation of the mask forgotten.
UnmatchedDirect_negation_dropped(df) ==
  LET keep(r) == r.matched_to_sst
      ids == [i \in 1..Len(df) |-> df[i]]
  IN  [i \in 1..Len(SelectSeq(ids, keep)) |-> SelectSeq(ids, keep)[i].ga_session_id]

\* bq_df[~bq_df['matched_to_sst']]['ga_session_id'].tolist()
UnmatchedDirect(df) ==
  LET keep(r) == ~r.matched_to_sst
      ids == [i \in 1..Len(df) |-> df[i]]
  IN  [i \in 1..Len(SelectSeq(ids, keep)) |-> SelectSeq(ids, keep)[i].ga_session_id]

\* The loop is over: build the lists and return.
ReturnMatches ==
  /\ pc = "match"
  /\ idx > Len(sst_df)
  /\ result' = [both |-> matches,
                sst_only |-> UnmatchedSst(sst_df),
                direct_only |-> UnmatchedDirect(bq_df)]
  /\ pc' = "returned"
  /\ UNCHANGED <<call, sst_df, bq_df, idx, matches, stats, cache, written,
                 raised, run, first>>
  /\ UNCHANGED <<fetch_vars, athena_vars, page_vars, helper_vars>>

(***************************************************************************)
(* get_corrected_session_stats, after its call of fuzzy_match_sessions.    *)
(***************************************************************************)
\* df[df['session_category'] == category]
RowsOfCategory(df, category) ==
  SelectSeq(df, LAMBDA r : r.session_category = category)

\* (a 0/1 or boolean column).sum(): the sum of a sequence of numbers
RECURSIVE SumSeq(_)
SumSeq(numbers) ==
  IF Len(numbers) = 0 THEN 0 ELSE Head(numbers) + SumSeq(Tail(numbers))

\* (rows[column] == value).sum()
CountEqual(rows, column, value) ==
  SumSeq([i \in 1..Len(rows) |-> IF rows[i][column] = value THEN 1 ELSE 0])

\* Floating-point values: an exact fraction, or what numpy gives for a
\* division by zero (nan for 0 / 0, inf otherwise; a warning, no exception).
Finite(n, d) == [kind |-> "finite", num |-> n, den |-> d]
NaN == [kind |-> "nan", num |-> 0, den |-> 0]
Inf == [kind |-> "inf", num |-> 0, den |-> 0]

\* n / d
FloatDiv(n, d) == IF d # 0 THEN Finite(n, d) ELSE IF n = 0 THEN NaN ELSE Inf

\* x * k
FloatTimes(x, k) == IF x.kind = "finite" THEN Finite(x.num * k, x.den) ELSE x

\* x / k, k > 0
FloatOver(x, k) == IF x.kind = "finite" THEN Finite(x.num, x.den * k) ELSE x

\* pd.to_numeric(cell, errors='coerce') followed by fillna(0)
ToNumericFillZero(cell) == IF cell = NullCell THEN 0 ELSE cell[1]

\* Series.mean(): nan for an empty series
Mean(numbers) ==
  IF Len(numbers) = 0 THEN NaN ELSE Finite(SumSeq(numbers), Len(numbers))

\* One entry of 'profiles': the four shares over pct_rows and the mean
\* engagement over eng_rows.
Profile(pct_rows, eng_rows) ==
  [desktop_pct |->
     FloatTimes(FloatDiv(CountEqual(pct_rows, "device_category", "desktop"),
                         Len(pct_rows)), 100),
   windows_pct |->
     FloatTimes(FloatDiv(CountEqual(pct_rows, "device_operating_system",
                                    "Windows"),
                         Len(pct_rows)), 100),
   windows_and_desktop_pct |->
     FloatTimes(FloatDiv(
                  Len(SelectSeq(pct_rows,
                        LAMBDA r : /\ r.device_category = "desktop"
                                   /\ r.device_operating_system = "Windows")),
                  Len(pct_rows)), 100),
   purchase_rate |->
     FloatTimes(FloatDiv(SumSeq([i \in 1..Len(pct_rows) |->
                                   pct_rows[i].has_purchase]),
                         Len(pct_rows)), 100),
   avg_engagement_sec |->
     FloatOver(Mean([i \in 1..Len(eng_rows) |->
                       ToNumericFillZero(eng_rows[i].engagement_time_msec)]),
               1000)]

\* df['date'] = pd.to_datetime(df['session_start_ts'] // 1000000, unit='s').dt.date
AddDate(df) ==
  [i \in 1..Len(df) |-> [date |-> DateOf(df[i].session_start_ts)] @@ df[i]]

\* The index of rows.groupby('date').size(): the dates that occur.
GroupDates(rows) == { rows[i].date : i \in 1..Len(rows) }

\* rows.groupby('date').size() at one date of its index
GroupSize(rows, d) == Len(SelectSeq(rows, LAMBDA r : r.date = d))

\* Variant: dropna() in place of fillna(0), which keeps only the dates
\* that occur in all three groups.
DailyTable_dropna(daily_both, daily_direct_only, daily_sst_only) ==
  [d \in GroupDates(daily_both) \cap GroupDates(daily_direct_only)
         \cap GroupDates(daily_sst_only) |->
     [column \in {"Both", "Direct-only", "SST-only"} |->
        CASE column = "Both" -> Len(SelectSeq(daily_both, LAMBDA r : r.date = d))
          [] column = "Direct-only" ->
               Len(SelectSeq(daily_direct_only, LAMBDA r : r.date = d))
          [] column = "SST-only" ->
               Len(SelectSeq(daily_sst_only, LAMBDA r : r.date = d))]]

\* The daily table: one row per date of the union of the three group
\* indexes, a count missing from a group filled with 0.
DailyTable(daily_both, daily_direct_only, daily_sst_only) ==
  [d \in GroupDates(daily_both) \cup GroupDates(daily_direct_only)
         \cup GroupDates(daily_sst_only) |->
     [column \in {"Both", "Direct-only", "SST-only"} |->
        CASE column = "Both" ->
               IF d \in GroupDates(daily_both)
               THEN GroupSize(daily_both, d) ELSE 0
          [] column = "Direct-only" ->
               IF d \in GroupDates(daily_direct_only)
               THEN GroupSize(daily_direct_only, d) ELSE 0
          [] column = "SST-only" ->
               IF d \in GroupDates(daily_sst_only)
               THEN GroupSize(daily_sst_only, d) ELSE 0]]

\* The dictionary get_corrected_session_stats returns.  'dataframes'
\* holds the two tables themselves (sst_df and bq_df of the state).
StatsOf(res, sst, direct) ==
  LET both_count           == Len(res.both)
      sst_only_count       == Len(res.sst_only)
      direct_only_count    == Len(res.direct_only)
      both_sst             == RowsOfCategory(sst, "Both")
      sst_only_sessions    == RowsOfCategory(sst, "SST-only")
      direct_only_sessions == RowsOfCategory(direct, "Direct-only")
      both_direct          == RowsOfCategory(direct, "Both")
  IN  [totals |-> [both |-> both_count,
                   sst_only |-> sst_only_count,
                   direct_only |-> direct_only_count,
                   total |-> both_count + sst_only_count + direct_only_count],
       daily |-> DailyTable(RowsOfCategory(AddDate(direct), "Both"),
                            RowsOfCategory(AddDate(direct), "Direct-only"),
                            RowsOfCategory(AddDate(sst), "SST-only")),
       profiles |->
         [category \in {"Both", "SST-only", "Direct-only"} |->
            CASE category = "Both" -> Profile(both_sst, both_direct)
              [] category = "SST-only" ->
                   Profile(sst_only_sessions, sst_only_sessions)
              [] category = "Direct-only" ->
                   Profile(direct_only_sessions, direct_only_sessions)],
       dataframes |-> {"sst", "direct"}]

GetCorrectedSessionStats ==
  /\ pc = "returned"
  /\ call.entry = "materialize_session_data"
  /\ stats' = StatsOf(result, sst_df, bq_df)
  /\ sst_df' = AddDate(sst_df)
  /\ bq_df' = AddDate(bq_df)
  /\ pc' = "stats"
  /\ UNCHANGED <<call, idx, matches, result, cache, written, raised, run, first>>
  /\ UNCHANGED <<fetch_vars, athena_vars, page_vars, helper_vars>>

(***************************************************************************)
(* materialize_session_data, after its call of                             *)
(* get_corrected_session_stats: the cache files in the order they are      *)
(* written, each with the keys of stats it is built from.                  *)
(***************************************************************************)
Artifacts ==
  << [file |-> "sst_sessions.parquet", reads |-> {"dataframes"}],
     [file |-> "direct_sessions.parquet", reads |-> {"dataframes"}],
     [file |-> "daily.parquet", reads |-> {"daily"}],
     [file |-> "hourly.parquet", reads |-> {"hourly"}],
     [file |-> "hourly_weekday.parquet", reads |-> {"hourly_weekday"}],
     [file |-> "hourly_weekend.parquet", reads |-> {"hourly_weekend"}],
     [file |-> "metadata.json", reads |-> {"totals", "profiles"}] >>

\* The cache directory after file is written (overwritten) by this call.
WriteFile(files, file) ==
  { f \in files : f.file # file } \cup
  { [file |-> file, date_start |-> call.date_start,
     date_end |-> call.date_end, run |-> run] }

\* The next artifact: stats[key] raises KeyError for a key the dictionary
\* lacks; after the last artifact the function returns stats.
MaterializeStep ==
  /\ pc = "stats"
  /\ written < Len(Artifacts)
  /\ LET artifact == Artifacts[written + 1]
     IN  IF artifact.reads \subseteq DOMAIN stats
         THEN /\ cache' = WriteFile(cache, artifact.file)
              /\ written' = written + 1
              /\ pc' = IF written + 1 = Len(Artifacts) THEN "done" ELSE "stats"
              /\ raised' = raised
         ELSE /\ raised' = "KeyError"
              /\ pc' = "error"
              /\ UNCHANGED <<cache, written>>
  /\ UNCHANGED <<call, sst_df, bq_df, idx, matches, result, stats, run, first>>
  /\ UNCHANGED <<fetch_vars, athena_vars, page_vars, helper_vars>>

(***************************************************************************)
(* The caller repeats the call: the same parameters, and the warehouses    *)
(* return the same tables.                                                 *)
(***************************************************************************)
CallEnded ==
  \/ call.entry = "fuzzy_match_sessions" /\ pc = "returned"
  \/ pc \in {"done", "error"}

\* What a call leaves behind: the pairs and lists, the category label of
\* every row, the statistics with their totals, and the exception if any.
Outcome ==
  [result |-> result,
   sst_category |-> [i \in 1..Len(sst_df) |-> sst_df[i].session_category],
   direct_category |-> [i \in 1..Len(bq_df) |-> bq_df[i].session_category],
   stats |-> stats,
   raised |-> raised]

Rerun ==
  /\ CallEnded
  /\ run = 1
  /\ first' = Outcome
  /\ run' = 2
  /\ sst_df' = InitSst(call.sst)
  /\ bq_df' = InitDirect(call.direct)
  /\ idx' = 1
  /\ matches' = <<>>
  /\ result' = NoValue
  /\ stats' = NoValue
  /\ written' = 0
  /\ raised' = "none"
  /\ pc' = "match"
  /\ UNCHANGED <<call, cache>>
  /\ UNCHANGED <<fetch_vars, athena_vars, page_vars, helper_vars>>

Next ==
  \/ MatchStep
  \/ ReturnMatches
  \/ GetCorrectedSessionStats
  \/ MaterializeStep

Spec == Init /\ [][Next]_vars

NextRerun ==
  \/ Next
  \/ Rerun

SpecRerun == InitRerun /\ [][NextRerun]_vars

(***************************************************************************)
(* app.run_athena_query: start the query, poll its state every half        *)
(* second, stop it when the wait has lasted longer than timeout_seconds,   *)
(* fetch the results when it has succeeded.  Time is counted in ticks of   *)
(* half a second, the length of the sleep between two polls.  (The         *)
(* st.cache_data wrapper returns a stored frame without running the body;  *)
(* the model is of the body.)                                              *)
(***************************************************************************)
TicksPerSecond == 2

\* The values of timeout_seconds explored.
TimeoutChoices == {0, 1}

\* Ticks an API call may take, and ticks time.sleep(0.5) may last.
CallLatency == {0, 1}
SleepTicks == {1, 2}

\* The ids Athena may give the query.
QueryIds == {"q1", "q2"}

NonTerminal == {"QUEUED", "RUNNING"}
Terminal == {"SUCCEEDED", "FAILED", "CANCELLED"}

\* One Athena API call: the operation and its QueryExecutionId argument.
ApiCall(op, id) == [op |-> op, id |-> id]

\* The reconciliation at position p with nothing fetched or computed yet.
SessionAt(p) ==
  /\ call = NoValue
  /\ sst_df = <<>>
  /\ bq_df = <<>>
  /\ idx = 1
  /\ matches = <<>>
  /\ result = NoValue
  /\ stats = NoValue
  /\ cache = {}
  /\ written = 0
  /\ raised = "none"
  /\ pc = p
  /\ run = 1
  /\ first = NoValue

\* The reconciliation is not running.
SessionIdle == SessionAt("idle")

InitAthena ==
  /\ SessionIdle
  /\ FetchIdle
  /\ PageIdle
  /\ HelperIdle
  /\ timeout_seconds \in TimeoutChoices
  /\ query_execution_id = "none"
  /\ query_state = "none"
  /\ state = "none"
  /\ clock = 0
  /\ start_time = 0
  /\ api_calls = <<>>
  /\ apc = "start"

\* client.start_query_execution(...); start_time = time.time()
StartQueryExecution ==
  /\ apc = "start"
  /\ \E id \in QueryIds : query_execution_id' = id
  /\ query_state' = "QUEUED"
  /\ api_calls' = Append(api_calls, ApiCall("start_query_execution", "none"))
  /\ \E d \in CallLatency : clock' = clock + d
  /\ start_time' = clock'
  /\ apc' = "poll"
  /\ UNCHANGED <<state, timeout_seconds, raised>>
  /\ UNCHANGED <<session_vars, fetch_vars, page_vars, helper_vars>>

\* Athena works on the query while run_athena_query waits.
AthenaProgress ==
  /\ apc \in {"poll", "check_timeout"}
  /\ \/ query_state = "QUEUED" /\ query_state' \in {"RUNNING", "FAILED", "CANCELLED"}
     \/ query_state = "RUNNING" /\ query_state' \in Terminal
  /\ UNCHANGED <<query_execution_id, state, clock, start_time, timeout_seconds,
                 api_calls, apc, raised>>
  /\ UNCHANGED <<session_vars, fetch_vars, page_vars, helper_vars>>

\* One poll: get_query_execution, then break on SUCCEEDED and raise on
\* FAILED or CANCELLED.
GetQueryExecution ==
  /\ apc = "poll"
  /\ api_calls' = Append(api_calls,
                         ApiCall("get_query_execution", query_execution_id))
  /\ state' = query_state
  /\ \E d \in CallLatency : clock' = clock + d
  /\ IF query_state = "SUCCEEDED"
     THEN apc' = "get_results" /\ raised' = raised
     ELSE IF query_state \in {"FAILED", "CANCELLED"}
     THEN apc' = "raised" /\ raised' = "Query " \o query_state
     ELSE apc' = "check_timeout" /\ raised' = raised
  /\ UNCHANGED <<query_execution_id, query_state, start_time, timeout_seconds>>
  /\ UNCHANGED <<session_vars, fetch_vars, page_vars, helper_vars>>

\* time.time() - start_time > timeout_seconds
TimedOut(now, start, timeout) == now - start > timeout * TicksPerSecond

\* Variant: the query left running when the wait is given up.
StopQueryExecution_skipped(calls, id) == calls

\* client.stop_query_execution(QueryExecutionId=query_execution_id)
StopQueryExecution(calls, id) ==
  Append(calls, ApiCall("stop_query_execution", id))

\* After a poll that saw the query neither succeeded, failed nor
\* cancelled: stop it and raise when the wait has timed out, sleep otherwise.
CheckTimeout ==
  /\ apc = "check_timeout"
  /\ IF TimedOut(clock, start_time, timeout_seconds)
     THEN /\ api_calls' = StopQueryExecution(api_calls, query_execution_id)
          /\ query_state' = IF query_state \in NonTerminal
                            THEN "CANCELLED" ELSE query_state
          /\ raised' = "Query timed out"
          /\ apc' = "raised"
          /\ clock' = clock
     ELSE /\ \E d \in SleepTicks : clock' = clock + d
          /\ apc' = "poll"
          /\ UNCHANGED <<api_calls, query_state, raised>>
  /\ UNCHANGED <<query_execution_id, state, start_time, timeout_seconds>>
  /\ UNCHANGED <<session_vars, fetch_vars, page_vars, helper_vars>>

\* client.get_query_results(...) and the frame built from its rows.
GetQueryResults ==
  /\ apc = "get_results"
  /\ api_calls' = Append(api_calls,
                         ApiCall("get_query_results", query_execution_id))
  /\ apc' = "returned"
  /\ UNCHANGED <<query_execution_id, query_state, state, clock, start_time,
                 timeout_seconds, raised>>
  /\ UNCHANGED <<session_vars, fetch_vars, page_vars, helper_vars>>

NextAthena ==
  \/ StartQueryExecution
  \/ AthenaProgress
  \/ GetQueryExecution
  \/ CheckTimeout
  \/ GetQueryResults

SpecAthena == InitAthena /\ [][NextAthena]_vars

(***************************************************************************)
(* The Direct fetch of fuzzy_match_sessions: bq_query groups the events    *)
(* by ga_session_id and by device category, operating system, browser,     *)
(* country and traffic source (GROUP BY 1, 3, 4, 5, 6, 7), so a session    *)
(* whose events differ in one of these comes back as several rows, in an   *)
(* order BigQuery is free to choose (the query has no ORDER BY); then      *)
(* drop_duplicates keeps the first row of each ga_session_id.  Browser and *)
(* traffic source are the same on every event of the model.                *)
(***************************************************************************)
BqEvent(id, ts, dev) ==
  [ga_session_id |-> id, event_timestamp |-> ts, device_category |-> dev,
   device_operating_system |-> "Windows", geo_country |-> "AU",
   event_name |-> "page_view", engagement_time_msec |-> Cell(1000)]

\* Events of two sessions, at midnight or a minute later, on either device.
BqEvents ==
  { BqEvent(id, ts, dev) :
      id \in {101, 102},
      ts \in { Instant(DefaultDateStart, 0, 0), Instant(DefaultDateStart, 60, 0) },
      dev \in {"desktop", "mobile"} }

Exports == { E \in SUBSET BqEvents : Cardinality(E) <= MaxEvents }

\* GROUP BY 1, 3, 4, 5, 6, 7
GroupKey(e) ==
  <<e.ga_session_id, e.device_category, e.device_operating_system,
    e.geo_country>>

\* MIN(event_timestamp)
MinTimestamp(events) ==
  CHOOSE t \in { e.event_timestamp : e \in events } :
    \A e \in events : MicrosLeq(t, e.event_timestamp)

\* MAX(CASE WHEN event_name = 'purchase' THEN 1 ELSE 0 END)
MaxPurchase(events) ==
  IF \E e \in events : e.event_name = "purchase" THEN 1 ELSE 0

\* SUM(engagement_time_msec): NULL when every value is NULL
RECURSIVE SumEngagementValues(_)
SumEngagementValues(events) ==
  IF events = {} THEN 0
  ELSE LET e == CHOOSE x \in events : TRUE
       IN  ToNumericFillZero(e.engagement_time_msec)
             + SumEngagementValues(events \ {e})

SumEngagement(events) ==
  IF \A e \in events : e.engagement_time_msec = NullCell
  THEN NullCell ELSE Cell(SumEngagementValues(events))

\* The row of one group.
GroupRow(events, key) ==
  LET group == { e \in events : GroupKey(e) = key }
  IN  [ga_session_id |-> key[1]] @@
      FetchedRow(MinTimestamp(group), key[2], key[3], key[4],
                 MaxPurchase(group), SumEngagement(group))

\* The rows of bq_query over the events.
BqQueryRows(events) ==
  { GroupRow(events, key) : key \in { GroupKey(e) : e \in events } }

\* The orders in which a set of rows can be returned.
Orderings(rows) ==
  { f \in [1..Cardinality(rows) -> rows] :
      \A i, j \in 1..Cardinality(rows) : f[i] = f[j] => i = j }

\* df.drop_duplicates(subset='ga_session_id', keep='first')
RECURSIVE DropDuplicates(_)
DropDuplicates(rows) ==
  IF rows = <<>> THEN <<>>
  ELSE LET kept == DropDuplicates(SubSeq(rows, 1, Len(rows) - 1))
           last == rows[Len(rows)]
       IN  IF \E k \in 1..Len(kept) : kept[k].ga_session_id = last.ga_session_id
           THEN kept ELSE Append(kept, last)

InitFetch ==
  /\ SessionAt("query_direct")
  /\ bq_events \in Exports
  /\ bq_rows = NoValue
  /\ AthenaIdle
  /\ PageIdle
  /\ HelperIdle

\* bq_client.query(bq_query).to_dataframe()
QueryDirect ==
  /\ pc = "query_direct"
  /\ bq_rows' \in Orderings(BqQueryRows(bq_events))
  /\ pc' = "load_direct"
  /\ UNCHANGED <<call, sst_df, bq_df, idx, matches, result, stats, cache,
                 written, raised, run, first, bq_events, athena_vars,
                 page_vars, helper_vars>>

\* drop_duplicates, to_numeric (the identity on the integers BigQuery
\* returns) and the source column.
LoadDirect ==
  /\ pc = "load_direct"
  /\ bq_df' = [i \in 1..Len(DropDuplicates(bq_rows)) |->
                 [source |-> "Direct"] @@ DropDuplicates(bq_rows)[i]]
  /\ pc' = "loaded"
  /\ UNCHANGED <<call, sst_df, idx, matches, result, stats, cache, written,
                 raised, run, first, fetch_vars, athena_vars, page_vars,
                 helper_vars>>

NextFetch ==
  \/ QueryDirect
  \/ LoadDirect

SpecFetch == InitFetch /\ [][NextFetch]_vars

(***************************************************************************)
(* materialize_session_data called a second time, for another date range:  *)
(* the range is one day longer, and no session started on the added day,   *)
(* so the warehouses return the same tables.                               *)
(***************************************************************************)
NextRangeEnd == Date(2026, 1, 8)

InitRemat ==
  /\ \E a \in SstTables(SstStatsRows) \ {<<>>},
        b \in DirectTables(DirectStatsRows) \ {<<>>} :
         Start(MaterializeCall(a, b))
  /\ FetchIdle /\ AthenaIdle /\ PageIdle /\ HelperIdle

MaterializeNextRange ==
  /\ call.entry = "materialize_session_data"
  /\ pc \in {"done", "error"}
  /\ run = 1
  /\ call' = [call EXCEPT !.date_end = NextRangeEnd]
  /\ first' = Outcome
  /\ run' = 2
  /\ sst_df' = InitSst(call.sst)
  /\ bq_df' = InitDirect(call.direct)
  /\ idx' = 1
  /\ matches' = <<>>
  /\ result' = NoValue
  /\ stats' = NoValue
  /\ written' = 0
  /\ raised' = "none"
  /\ pc' = "match"
  /\ UNCHANGED cache
  /\ UNCHANGED <<fetch_vars, athena_vars, page_vars, helper_vars>>

NextRemat ==
  \/ Next
  \/ MaterializeNextRange

SpecRemat == InitRemat /\ [][NextRemat]_vars

(***************************************************************************)
(* Calls without side effects.  The date filters of the two queries of     *)
(* fuzzy_match_sessions: which days of the warehouses each WHERE clause    *)
(* selects for a requested range.                                          *)
(***************************************************************************)
\* Days of a month of the years explored (neither is a leap year).
DaysInMonth(m) == IF m = 2 THEN 28 ELSE IF m \in {4, 6, 9, 11} THEN 30 ELSE 31

\* The days both warehouses hold: an events_YYYYMMDD table at BigQuery and
\* a year=/month=/day= partition at Athena for each.
WarehouseDays ==
  { Date(2025, 12, d) : d \in 1..DaysInMonth(12) } \cup
  { Date(2026, 1, d) : d \in 1..DaysInMonth(1) } \cup
  { Date(2026, 2, d) : d \in 1..DaysInMonth(2) }

\* The dates a requested range starts or ends on.
RangeDates ==
  { date \in WarehouseDays : date.day \in {1, 2, 15, 27, 28, 31} }

\* The requested ranges, date_start <= date_end.
RangeCalls ==
  { [fn |-> "fuzzy_match_sessions", date_start |-> a, date_end |-> b] :
      <<a, b>> \in { p \in RangeDates \X RangeDates :
                       DayNumber(p[1]) <= DayNumber(p[2]) } }

\* a <= b for two YYYYMMDD strings: the order of strings of one length is
\* the order of their fields, most significant first.
SuffixLeq(a, b) ==
  \/ a.year < b.year
  \/ a.year = b.year /\ a.month < b.month
  \/ a.year = b.year /\ a.month = b.month /\ a.day <= b.day

\* WHERE _TABLE_SUFFIX BETWEEN '{date_start}' AND '{date_end}'
BigQueryDays(date_start, date_end) ==
  { date \in WarehouseDays :
      SuffixLeq(date_start, date) /\ SuffixLeq(date, date_end) }

\* Variant: the days of the range, whatever month they fall in.
AthenaDays_whole_dates(date_start, date_end) ==
  { date \in WarehouseDays :
      SuffixLeq(date_start, date) /\ SuffixLeq(date, date_end) }

\* year = date_start[:4]; month = date_start[4:6];
\* day_start = date_start[6:8]; day_end = date_end[6:8];
\* WHERE year = '{year}' AND month = '{month}'
\*   AND day BETWEEN '{day_start}' AND '{day_end}'
AthenaDays(date_start, date_end) ==
  LET year      == date_start.year
      month     == date_start.month
      day_start == date_start.day
      day_end   == date_end.day
  IN  { date \in WarehouseDays :
          /\ date.year = year
          /\ date.month = month
          /\ day_start <= date.day /\ date.day <= day_end }

\* The Direct query runs first.
SelectDirectDays ==
  /\ HasValue(hcall)
  /\ hcall.fn = "fuzzy_match_sessions"
  /\ ~HasValue(hout)
  /\ hout' = [direct_days |-> BigQueryDays(hcall.date_start, hcall.date_end)]
  /\ UNCHANGED <<hcall, raised, session_vars, fetch_vars, athena_vars,
                 page_vars>>

\* The SST query runs second.
SelectSstDays ==
  /\ HasValue(hcall)
  /\ hcall.fn = "fuzzy_match_sessions"
  /\ HasValue(hout)
  /\ DOMAIN hout = {"direct_days"}
  /\ hout' = [direct_days |-> hout.direct_days,
              sst_days |-> AthenaDays(hcall.date_start, hcall.date_end)]
  /\ UNCHANGED <<hcall, raised, session_vars, fetch_vars, athena_vars,
                 page_vars>>

(***************************************************************************)
(* The Athena fetch of fuzzy_match_sessions and of the run_athena_query     *)
(* helpers of hypothesis_validation and verify_transformations: start      *)
(* the query, poll its state once a second until it is SUCCEEDED,          *)
(* FAILED or CANCELLED, raise unless it succeeded, then read the result    *)
(* page by page.                                                           *)
(***************************************************************************)
MaxPolls == 3
MaxDataRows == 2
MaxPages == 3

Readers ==
  {"fuzzy_match_sessions", "hypothesis_validation.run_athena_query",
   "verify_transformations.run_athena_query"}

\* A Datum of a result row: with a VarCharValue, or without one for NULL.
Datum(v) == [VarCharValue |-> v]
NullDatum == [IsNull |-> TRUE]

\* A result row of one column.
ResultRow(datum) == [Data |-> <<datum>>]

\* The first row Athena returns for a SELECT names the columns.
HeaderRow == ResultRow(Datum("ga_session_id"))

DataRows == { ResultRow(d) : d \in {Datum("1"), Datum("2"), NullDatum} }

\* The rows of a result: the header, then 0..MaxDataRows data rows.
ResultSets ==
  UNION { { <<HeaderRow>> \o f : f \in [1..n -> DataRows] } :
            n \in 0..MaxDataRows }

\* The NextToken that asks for page i.
Token(i) == [page |-> i]

\* The pages of a result cut after the rows cuts[1] <= cuts[2] <= ...: page
\* i holds the rows after cut i-1 up to cut i, and every page but the last
\* carries a NextToken.
PagesOf(rows, cuts) ==
  [i \in 1..(Len(cuts) + 1) |->
     LET from == IF i = 1 THEN 1 ELSE cuts[i - 1] + 1
         to   == IF i = Len(cuts) + 1 THEN Len(rows) ELSE cuts[i]
         page == [Rows |-> SubSeq(rows, from, to)]
     IN  IF i = Len(cuts) + 1 THEN page
         ELSE page @@ [NextToken |-> Token(i + 1)]]

\* The ways Athena may page a result into 1..MaxPages pages: the first
\* page holds the header at least, a later page may hold no row.
Pagings ==
  UNION { { PagesOf(rows, cuts) :
              cuts \in { c \in [1..n -> 1..Len(rows)] :
                           \A i \in 1..(n - 1) : c[i] <= c[i + 1] } } :
            <<rows, n>> \in ResultSets \X (0..(MaxPages - 1)) }

\* [field.get('VarCharValue', '') for field in row['Data']]
Values(row) ==
  [k \in 1..Len(row.Data) |->
     IF "VarCharValue" \in DOMAIN row.Data[k]
     THEN row.Data[k].VarCharValue ELSE ""]

\* rows[1:]
Rest(rows) == IF rows = <<>> THEN <<>> ELSE Tail(rows)

\* get_query_execution calls made so far.
Polls ==
  Cardinality({ k \in 1..Len(api_calls) :
                  api_calls[k].op = "get_query_execution" })

InitSstFetch ==
  /\ SessionIdle
  /\ FetchIdle
  /\ HelperIdle
  /\ reader \in Readers
  /\ pages = NoValue
  /\ next_token = NoValue
  /\ columns = NoValue
  /\ data = <<>>
  /\ query_execution_id = "none"
  /\ query_state = "none"
  /\ state = "none"
  /\ clock = 0
  /\ start_time = 0
  /\ timeout_seconds = 0
  /\ api_calls = <<>>
  /\ apc = "start"

\* athena.start_query_execution(...); query_id = response['QueryExecutionId']
SstStartQueryExecution ==
  /\ apc = "start"
  /\ reader \in Readers
  /\ \E id \in QueryIds : query_execution_id' = id
  /\ query_state' = "QUEUED"
  /\ api_calls' = Append(api_calls, ApiCall("start_query_execution", "none"))
  /\ apc' = "poll"
  /\ UNCHANGED <<state, clock, start_time, timeout_seconds, raised>>
  /\ UNCHANGED <<session_vars, fetch_vars, page_vars, helper_vars>>

\* One turn of the while True loop: get_query_execution; break when the
\* state is SUCCEEDED, FAILED or CANCELLED, time.sleep(1) and poll again
\* otherwise.  After the break: raise unless the state is SUCCEEDED.  The
\* loop tests nothing else: neither a clock nor a count of polls.  (Only
\* MaxPolls polls are explored.)
SstPoll ==
  /\ apc = "poll"
  /\ reader \in Readers
  /\ Polls < MaxPolls
  /\ api_calls' = Append(api_calls,
                         ApiCall("get_query_execution", query_execution_id))
  /\ state' = query_state
  /\ IF query_state \in Terminal
     THEN IF query_state # "SUCCEEDED"
          THEN /\ raised' = "Exception"
               /\ apc' = "raised"
               /\ pages' = pages
          ELSE /\ raised' = raised
               /\ apc' = "get_results"
               /\ pages' \in Pagings
     ELSE /\ raised' = raised
          /\ apc' = "poll"
          /\ pages' = pages
  /\ UNCHANGED <<query_execution_id, query_state, clock, start_time,
                 timeout_seconds>>
  /\ UNCHANGED <<reader, next_token, columns, data>>
  /\ UNCHANGED <<session_vars, fetch_vars, helper_vars>>

\* athena.get_query_results(QueryExecutionId=query_id,
\*                          NextToken=next_token, MaxResults=1000),
\* without NextToken when next_token is None.
Results(token) == pages[IF HasValue(token) THEN token.page ELSE 1]

\* results.get('NextToken')
NextTokenOf(results) ==
  IF "NextToken" \in DOMAIN results THEN results.NextToken ELSE NoValue

\* Variant: the first row of every page taken for a header.
PageRows_every_page(results, token) == Rest(results.Rows)

\* fuzzy_match_sessions: rows = results['ResultSet']['Rows'];
\* if not next_token: rows = rows[1:]
PageRows(results, token) ==
  IF ~HasValue(token) THEN Rest(results.Rows) ELSE results.Rows

\* for row in rows: athena_rows.append([...])
Collected(rows) == [k \in 1..Len(rows) |-> Values(rows[k])]

\* One turn of the result loop of fuzzy_match_sessions.
ReadPageFuzzy ==
  /\ apc = "get_results"
  /\ reader = "fuzzy_match_sessions"
  /\ LET results == Results(next_token)
     IN  /\ data' = data \o Collected(PageRows(results, next_token))
         /\ next_token' = NextTokenOf(results)
         /\ apc' = IF HasValue(NextTokenOf(results))
                   THEN "get_results" ELSE "returned"
  /\ api_calls' = Append(api_calls,
                         ApiCall("get_query_results", query_execution_id))
  /\ UNCHANGED <<query_execution_id, query_state, state, clock, start_time,
                 timeout_seconds, raised, reader, pages, columns>>
  /\ UNCHANGED <<session_vars, fetch_vars, helper_vars>>

\* One turn of the result loop of run_athena_query, whose text is the same
\* in hypothesis_validation and verify_transformations:
\* if columns is None: columns = [...rows[0]...]; rows = rows[1:]
RunAthenaQueryPage(name) ==
  /\ apc = "get_results"
  /\ reader = name
  /\ LET results == Results(next_token)
         rows    == results.Rows
     IN  /\ IF ~HasValue(columns)
            THEN /\ columns' = [names |-> Values(rows[1])]
                 /\ data' = data \o Collected(Rest(rows))
            ELSE /\ columns' = columns
                 /\ data' = data \o Collected(rows)
         /\ next_token' = NextTokenOf(results)
         /\ apc' = IF HasValue(NextTokenOf(results))
                   THEN "get_results" ELSE "returned"
  /\ api_calls' = Append(api_calls,
                         ApiCall("get_query_results", query_execution_id))
  /\ UNCHANGED <<query_execution_id, query_state, state, clock, start_time,
                 timeout_seconds, raised, reader, pages>>
  /\ UNCHANGED <<session_vars, fetch_vars, helper_vars>>

ReadPageHypothesis ==
  RunAthenaQueryPage("hypothesis_validation.run_athena_query")

ReadPageVerify ==
  RunAthenaQueryPage("verify_transformations.run_athena_query")

NextSstFetch ==
  \/ SstStartQueryExecution
  \/ AthenaProgress
  \/ SstPoll
  \/ ReadPageFuzzy
  \/ ReadPageHypothesis
  \/ ReadPageVerify

SpecSstFetch == InitSstFetch /\ [][NextSstFetch]_vars

(***************************************************************************)
(* hypothesis_validation: the assessment at the end of each hypothesis     *)
(* test.  A frame is given by the counts the assessment reads: its number  *)
(* of rows and the number of rows of each kind.  Shares are exact          *)
(* fractions, and evidence_score is held in tenths (0.5 is 5, 1 is 10).    *)
(***************************************************************************)
ScoreOne == 10
ScoreHalf == 5

\* Frames have no row or a hundred rows.
FrameLens == {0, 100}

\* (series.value_counts(normalize=True) * 100).get(key, 0): 0 for a key
\* that does not occur, also in an empty frame.
ValueShare(count, len) ==
  IF count = 0 THEN Finite(0, 1) ELSE Finite(count * 100, len)

\* (boolean series).mean() * 100: nan for an empty frame.
MeanShare(count, len) == FloatTimes(FloatDiv(count, len), 100)

\* x > y + margin; False when either is nan.
FloatGt(x, y, margin) ==
  /\ x.kind = "finite"
  /\ y.kind = "finite"
  /\ x.num * y.den > (y.num + margin * y.den) * x.den

\* x < y; False when either is nan.
FloatLt(x, y) ==
  /\ x.kind = "finite"
  /\ y.kind = "finite"
  /\ x.num * y.den < y.num * x.den

\* The frames of test_hypothesis_1_adblocker: rows on a desktop, rows of
\* an extension-capable browser (Chrome, Firefox, Edge), rows of Safari.
AdblockerFrames ==
  { [len |-> 0, desktop |-> 0, extension |-> 0, safari |-> 0] } \cup
  { [len |-> 100, desktop |-> d, extension |-> e, safari |-> s] :
      d \in {70, 71}, e \in {50, 52, 54}, s \in {10, 20} }

AdblockerCalls ==
  { [fn |-> "test_hypothesis_1_adblocker", sst_only_df |-> a, both_df |-> b] :
      a \in AdblockerFrames,
      b \in { f \in AdblockerFrames : f.desktop \in {0, 70} } }

\* The frames of test_hypothesis_2_corporate: rows on a desktop, rows of
\* Windows, rows with 9 <= hour_melbourne < 17.
CorporateFrames ==
  { [len |-> 0, desktop |-> 0, windows |-> 0, business |-> 0] } \cup
  { [len |-> 100, desktop |-> d, windows |-> w, business |-> h] :
      d \in {65, 66, 75, 76}, w \in {40, 45, 46}, h \in {50, 52, 54} }

CorporateCalls ==
  { [fn |-> "test_hypothesis_2_corporate", direct_only_df |-> a,
     both_df |-> b] :
      a \in { f \in CorporateFrames : f.windows \in {0, 45, 46} },
      b \in { f \in CorporateFrames :
                f.windows \in {0, 40} /\ f.desktop \in {0, 65} } }

\* The frames of test_hypothesis_3_china: rows whose country is 'China'.
ChinaFrames ==
  { [len |-> 0, china |-> 0] } \cup
  { [len |-> 100, china |-> c] : c \in {0, 10, 15, 16} }

ChinaCalls ==
  { [fn |-> "test_hypothesis_3_china", direct_only_df |-> a,
     sst_only_df |-> b, both_df |-> c] :
      a \in ChinaFrames, b \in ChinaFrames, c \in ChinaFrames }

\* test_hypothesis_1_adblocker, lines 293-317
EvidenceScore1(sst_only_df, both_df) ==
  LET desktop_pct    == ValueShare(sst_only_df.desktop, sst_only_df.len)
      sst_extension  == ValueShare(sst_only_df.extension, sst_only_df.len)
      both_extension == ValueShare(both_df.extension, both_df.len)
      safari_sst     == ValueShare(sst_only_df.safari, sst_only_df.len)
      safari_both    == ValueShare(both_df.safari, both_df.len)
  IN  (IF FloatGt(desktop_pct, Finite(70, 1), 0) THEN ScoreOne ELSE 0)
      + (IF FloatGt(sst_extension, both_extension, 3) THEN ScoreOne
         ELSE IF FloatGt(sst_extension, both_extension, 0) THEN ScoreHalf
         ELSE 0)
      + (IF FloatLt(safari_sst, safari_both) THEN ScoreOne ELSE 0)

\* test_hypothesis_2_corporate, lines 404-431
EvidenceScore2(direct_only_df, both_df) ==
  LET desktop_pct     == ValueShare(direct_only_df.desktop, direct_only_df.len)
      windows_pct     == ValueShare(direct_only_df.windows, direct_only_df.len)
      windows_both    == ValueShare(both_df.windows, both_df.len)
      direct_business == MeanShare(direct_only_df.business, direct_only_df.len)
      both_business   == MeanShare(both_df.business, both_df.len)
  IN  (IF FloatGt(desktop_pct, Finite(75, 1), 0) THEN ScoreOne
       ELSE IF FloatGt(desktop_pct, Finite(65, 1), 0) THEN ScoreHalf
       ELSE 0)
      + (IF FloatGt(windows_pct, windows_both, 5) THEN ScoreOne ELSE 0)
      + (IF FloatGt(direct_business, both_business, 3) THEN ScoreOne
         ELSE IF FloatGt(direct_business, both_business, 0) THEN ScoreHalf
         ELSE 0)

\* Variant: a full point where the code gives half a point.
EvidenceScore3_full_points(direct_only_df, sst_only_df, both_df) ==
  LET direct_china == MeanShare(direct_only_df.china, direct_only_df.len)
      sst_china    == MeanShare(sst_only_df.china, sst_only_df.len)
      both_china   == MeanShare(both_df.china, both_df.len)
  IN  (IF FloatGt(sst_china, both_china, 0) THEN ScoreOne ELSE 0)
      + (IF FloatLt(direct_china, both_china) THEN ScoreOne ELSE 0)
      + (IF sst_only_df.china > direct_only_df.china THEN ScoreOne ELSE 0)

\* test_hypothesis_3_china, lines 455-457, 468-469, 484-503
EvidenceScore3(direct_only_df, sst_only_df, both_df) ==
  LET direct_china   == MeanShare(direct_only_df.china, direct_only_df.len)
      sst_china      == MeanShare(sst_only_df.china, sst_only_df.len)
      both_china     == MeanShare(both_df.china, both_df.len)
      direct_china_n == direct_only_df.china
      sst_china_n    == sst_only_df.china
  IN  (IF FloatGt(sst_china, both_china, 5) THEN ScoreOne
       ELSE IF FloatGt(sst_china, both_china, 0) THEN ScoreHalf
       ELSE 0)
      + (IF FloatLt(direct_china, both_china) THEN ScoreHalf ELSE 0)
      + (IF sst_china_n > direct_china_n THEN ScoreOne ELSE 0)

\* "HIGH" if evidence_score >= 2.5 else "MEDIUM" if evidence_score >= 1.5
\* else "LOW"
Confidence(evidence_score) ==
  IF evidence_score >= 25 THEN "HIGH"
  ELSE IF evidence_score >= 15 THEN "MEDIUM" ELSE "LOW"

\* "HIGH" if evidence_score >= 2 else "MEDIUM" if evidence_score >= 1
\* else "LOW"
ConfidenceChina(evidence_score) ==
  IF evidence_score >= 20 THEN "HIGH"
  ELSE IF evidence_score >= 10 THEN "MEDIUM" ELSE "LOW"

\* What a test prints and returns.
Assessment(evidence_score, confidence, out_of) ==
  [evidence_score |-> evidence_score, confidence |-> confidence,
   out_of |-> out_of]

TestHypothesis1 ==
  /\ HasValue(hcall)
  /\ hcall.fn = "test_hypothesis_1_adblocker"
  /\ ~HasValue(hout)
  /\ LET evidence_score == EvidenceScore1(hcall.sst_only_df, hcall.both_df)
     IN  hout' = Assessment(evidence_score, Confidence(evidence_score), 30)
  /\ UNCHANGED <<hcall, raised, session_vars, fetch_vars, athena_vars,
                 page_vars>>

TestHypothesis2 ==
  /\ HasValue(hcall)
  /\ hcall.fn = "test_hypothesis_2_corporate"
  /\ ~HasValue(hout)
  /\ LET evidence_score == EvidenceScore2(hcall.direct_only_df, hcall.both_df)
     IN  hout' = Assessment(evidence_score, Confidence(evidence_score), 30)
  /\ UNCHANGED <<hcall, raised, session_vars, fetch_vars, athena_vars,
                 page_vars>>

TestHypothesis3 ==
  /\ HasValue(hcall)
  /\ hcall.fn = "test_hypothesis_3_china"
  /\ ~HasValue(hout)
  /\ LET evidence_score == EvidenceScore3(hcall.direct_only_df,
                                          hcall.sst_only_df, hcall.both_df)
     IN  hout' = Assessment(evidence_score, ConfidenceChina(evidence_score),
                            25)
  /\ UNCHANGED <<hcall, raised, session_vars, fetch_vars, athena_vars,
                 page_vars>>

(***************************************************************************)
(* hypothesis_validation.get_session_sets, after its two queries: the      *)
(* session frames hold one row per ga_session_id (groupby(...).first()),   *)
(* and the ids are strings on both sides (CAST ... AS STRING at BigQuery,  *)
(* a VarCharValue from Athena), so astype(str) and str(x) leave them as    *)
(* they are.  A frame is the sequence of its ids.                          *)
(***************************************************************************)
SessionIds == {"s1", "s2", "s3"}

\* The frames over a set of ids, one row per id.
RECURSIVE FrameOf(_)
FrameOf(ids) ==
  IF ids = {} THEN <<>>
  ELSE LET x == CHOOSE y \in ids : TRUE
       IN  <<x>> \o FrameOf(ids \ {x})

SessionSetCalls ==
  { [fn |-> "get_session_sets", bq_sessions |-> FrameOf(a),
     sst_sessions |-> FrameOf(b)] :
      a \in SUBSET SessionIds, b \in SUBSET SessionIds }

\* set(frame['ga_session_id'].astype(str))
IdSet(frame) == { frame[i] : i \in 1..Len(frame) }

\* both_ids = direct_ids & sst_ids
BothIds(direct_ids, sst_ids) == direct_ids \cap sst_ids

\* direct_only_ids = direct_ids - sst_ids
DirectOnlyIds(direct_ids, sst_ids) == direct_ids \ sst_ids

\* Variant: every SST id taken for an SST-only id.
SstOnlyIds_not_subtracted(direct_ids, sst_ids) == sst_ids

\* sst_only_ids = sst_ids - direct_ids
SstOnlyIds(direct_ids, sst_ids) == sst_ids \ direct_ids

\* lambda x: 'both' if str(x) in both_ids
\*           else (label if str(x) in only_ids else 'unknown')
Category(x, both_ids, only_ids, label) ==
  IF x \in both_ids THEN "both"
  ELSE IF x \in only_ids THEN label ELSE "unknown"

\* frame[frame['category'] == label]
RowsLabelled(frame, category, label) ==
  LET keep == { i \in 1..Len(frame) : category[i] = label }
      RECURSIVE Pick(_)
      Pick(i) == IF i > Len(frame) THEN <<>>
                 ELSE (IF i \in keep THEN <<frame[i]>> ELSE <<>>) \o Pick(i + 1)
  IN  Pick(1)

\* Lines 213-236.  The three prints divide by len(direct_ids | sst_ids):
\* with no session on either side the first of them raises
\* ZeroDivisionError, before any row is labelled.
GetSessionSets ==
  /\ HasValue(hcall)
  /\ hcall.fn = "get_session_sets"
  /\ ~HasValue(hout)
  /\ LET direct_ids      == IdSet(hcall.bq_sessions)
         sst_ids         == IdSet(hcall.sst_sessions)
         both_ids        == BothIds(direct_ids, sst_ids)
         direct_only_ids == DirectOnlyIds(direct_ids, sst_ids)
         sst_only_ids    == SstOnlyIds(direct_ids, sst_ids)
         bq_category     ==
           [i \in 1..Len(hcall.bq_sessions) |->
              Category(hcall.bq_sessions[i], both_ids, direct_only_ids,
                       "direct_only")]
         sst_category    ==
           [i \in 1..Len(hcall.sst_sessions) |->
              Category(hcall.sst_sessions[i], both_ids, sst_only_ids,
                       "sst_only")]
     IN  IF direct_ids \cup sst_ids = {}
         THEN /\ raised' = "ZeroDivisionError"
              /\ hout' = [both_ids |-> both_ids,
                          direct_only_ids |-> direct_only_ids,
                          sst_only_ids |-> sst_only_ids]
         ELSE /\ raised' = raised
              /\ hout' =
                   [both_ids |-> both_ids,
                    direct_only_ids |-> direct_only_ids,
                    sst_only_ids |-> sst_only_ids,
                    bq_category |-> bq_category,
                    sst_category |-> sst_category,
                    direct_only_df |->
                      RowsLabelled(hcall.bq_sessions, bq_category,
                                   "direct_only"),
                    sst_only_df |->
                      RowsLabelled(hcall.sst_sessions, sst_category,
                                   "sst_only"),
                    both_direct_df |->
                      RowsLabelled(hcall.bq_sessions, bq_category, "both")]
  /\ UNCHANGED <<hcall, session_vars, fetch_vars, athena_vars, page_vars>>

(***************************************************************************)
(* device_category from the user agent: transform_device_category of       *)
(* verify_transformations and the CASE expression of the Athena query of   *)
(* get_session_sets.  Both test the user agent for substrings only, so a   *)
(* user agent is given by the markers it contains, and by whether it is    *)
(* the empty string.                                                       *)
(***************************************************************************)
Markers ==
  {"iPad", "Android", "Mobile", "iPhone", "iPod", "Windows Phone",
   "BlackBerry", "Opera Mini", "IEMobile"}

\* 'IEMobile' holds 'Mobile': a string with the first holds the second.
UserAgents ==
  { [empty |-> FALSE, markers |-> m] :
      m \in { s \in SUBSET Markers : "IEMobile" \in s => "Mobile" \in s } }
  \cup { [empty |-> TRUE, markers |-> {}] }

DeviceCalls ==
  { [fn |-> "transform_device_category", user_agent |-> ua] :
      ua \in UserAgents }

\* marker in ua; user_agent LIKE '%marker%'
Contains(ua, marker) == marker \in ua.markers

\* verify_transformations.transform_device_category
transform_device_category(user_agent) ==
  IF user_agent.empty THEN "desktop"
  ELSE IF Contains(user_agent, "iPad") THEN "tablet"
  ELSE IF Contains(user_agent, "Android") /\ ~Contains(user_agent, "Mobile")
       THEN "tablet"
  ELSE IF Contains(user_agent, "iPhone") THEN "mobile"
  ELSE IF Contains(user_agent, "iPod") THEN "mobile"
  ELSE IF Contains(user_agent, "Android") /\ Contains(user_agent, "Mobile")
       THEN "mobile"
  ELSE IF Contains(user_agent, "Windows Phone") THEN "mobile"
  ELSE IF Contains(user_agent, "BlackBerry") THEN "mobile"
  ELSE IF Contains(user_agent, "Opera Mini") THEN "mobile"
  ELSE IF Contains(user_agent, "IEMobile") THEN "mobile"
  ELSE "desktop"

\* hypothesis_validation.get_session_sets: CASE WHEN ... END as
\* device_category
SqlDeviceCategory(user_agent) ==
  IF Contains(user_agent, "iPad") THEN "tablet"
  ELSE IF Contains(user_agent, "Android") /\ ~Contains(user_agent, "Mobile")
       THEN "tablet"
  ELSE IF Contains(user_agent, "iPhone") THEN "mobile"
  ELSE IF Contains(user_agent, "iPod") THEN "mobile"
  ELSE IF Contains(user_agent, "Android") /\ Contains(user_agent, "Mobile")
       THEN "mobile"
  ELSE "desktop"

\* The Python transformation of a user agent.
TransformDeviceCategory ==
  /\ HasValue(hcall)
  /\ hcall.fn = "transform_device_category"
  /\ ~HasValue(hout)
  /\ hout' = [python |-> transform_device_category(hcall.user_agent)]
  /\ UNCHANGED <<hcall, raised, session_vars, fetch_vars, athena_vars,
                 page_vars>>

\* The SQL transformation of the same user agent.
SelectDeviceCategory ==
  /\ HasValue(hcall)
  /\ hcall.fn = "transform_device_category"
  /\ HasValue(hout)
  /\ DOMAIN hout = {"python"}
  /\ hout' = [python |-> hout.python,
              sql |-> SqlDeviceCategory(hcall.user_agent)]
  /\ UNCHANGED <<hcall, raised, session_vars, fetch_vars, athena_vars,
                 page_vars>>

(***************************************************************************)
(* The calls without side effects that are explored.                       *)
(***************************************************************************)
HelperCalls ==
  RangeCalls \cup AdblockerCalls \cup CorporateCalls \cup ChinaCalls
    \cup SessionSetCalls \cup DeviceCalls

InitHelpers ==
  /\ SessionIdle
  /\ FetchIdle
  /\ AthenaIdle
  /\ PageIdle
  /\ hcall \in HelperCalls
  /\ hout = NoValue

NextHelpers ==
  \/ SelectDirectDays
  \/ SelectSstDays
  \/ TestHypothesis1
  \/ TestHypothesis2
  \/ TestHypothesis3
  \/ GetSessionSets
  \/ TransformDeviceCategory
  \/ SelectDeviceCategory

SpecHelpers == InitHelpers /\ [][NextHelpers]_vars

(***************************************************************************)
(* Properties.                                                             *)
(***************************************************************************)
\* The row of a table with a given ga_session_id.
RowOf(df, id) == df[CHOOSE i \in 1..Len(df) : df[i].ga_session_id = id]

\* The members of a list.
Members(list) == { list[k] : k \in 1..Len(list) }

SstIdsOfPairs(pairs) == { pairs[p][1] : p \in 1..Len(pairs) }
DirectIdsOfPairs(pairs) == { pairs[p][2] : p \in 1..Len(pairs) }

\* |a - b| <= seconds * 1000000, bounds inclusive
WithinSeconds(a, b, seconds) ==
  LET d == IF MicrosLeq(b, a) THEN MicrosSub(a, b) ELSE MicrosSub(b, a)
  IN  d.s < seconds \/ (d.s = seconds /\ d.us = 0)

SameDeviceCountry(a, b) ==
  a.device_category = b.device_category /\ a.geo_country = b.geo_country

\* C1: when fuzzy_match_sessions has returned, no SST session id is the
\* first component of two pairs of 'both' and no Direct session id is the
\* second component of two pairs.
C1_OneToOne ==
  HasValue(result) =>
    \A p, q \in 1..Len(result.both) :
      (result.both[p][1] = result.both[q][1]
         \/ result.both[p][2] = result.both[q][2]) => p = q

\* Two SST sessions of equal start, device and country were both paired:
\* the second had the first one's partner inside its window.
C1_Witness ==
  /\ HasValue(result)
  /\ Len(result.both) = 2
  /\ sst_df[1].session_start_ts = sst_df[2].session_start_ts
  /\ SameDeviceCountry(sst_df[1], sst_df[2])

\* C2: when fuzzy_match_sessions has returned, every SST session is in
\* 'sst_only' exactly if it is in no pair, and carries the label 'Both' if
\* it is in a pair and 'SST-only' otherwise; likewise every Direct session
\* with 'direct_only' and 'Direct-only'; the lists name sessions of the
\* tables only.
C2_Partition ==
  HasValue(result) =>
    /\ \A i \in 1..Len(sst_df) :
         LET id == sst_df[i].ga_session_id
             paired == id \in SstIdsOfPairs(result.both)
         IN  /\ (id \in Members(result.sst_only)) <=> ~paired
             /\ sst_df[i].session_category =
                  (IF paired THEN "Both" ELSE "SST-only")
    /\ \A i \in 1..Len(bq_df) :
         LET id == bq_df[i].ga_session_id
             paired == id \in DirectIdsOfPairs(result.both)
         IN  /\ (id \in Members(result.direct_only)) <=> ~paired
             /\ bq_df[i].session_category =
                  (IF paired THEN "Both" ELSE "Direct-only")
    /\ SstIdsOfPairs(result.both) \cup Members(result.sst_only)
         = { sst_df[i].ga_session_id : i \in 1..Len(sst_df) }
    /\ DirectIdsOfPairs(result.both) \cup Members(result.direct_only)
         = { bq_df[i].ga_session_id : i \in 1..Len(bq_df) }

\* The first SST session stayed unmatched, the second was paired, and one
\* Direct session stayed unmatched.
C2_Witness ==
  /\ HasValue(result)
  /\ Len(sst_df) = 2
  /\ result.sst_only = <<sst_df[1].ga_session_id>>
  /\ Len(result.both) = 1
  /\ Len(result.direct_only) = 1

\* C3: when fuzzy_match_sessions has returned,
\* len(both) + len(sst_only) is the number of SST rows and
\* len(both) + len(direct_only) is the number of Direct rows.
C3_CountIdentity ==
  HasValue(result) =>
    /\ Len(result.both) + Len(result.sst_only) = Len(call.sst)
    /\ Len(result.both) + Len(result.direct_only) = Len(call.direct)

\* The tables differ in length: one pair, one more SST session, no Direct
\* session left.
C3_Witness ==
  /\ HasValue(result)
  /\ Len(result.both) = 1
  /\ Len(result.sst_only) = 1
  /\ Len(result.direct_only) = 0

\* C4: every recorded pair has start timestamps at most
\* time_window_seconds * 1000000 microseconds apart (bounds inclusive),
\* equal device_category and equal geo_country.
C4_PairsSatisfyPredicate ==
  \A p \in 1..Len(matches) :
    LET a == RowOf(sst_df, matches[p][1])
        b == RowOf(bq_df, matches[p][2])
    IN  /\ WithinSeconds(a.session_start_ts, b.session_start_ts,
                         time_window_seconds)
        /\ a.device_category = b.device_category
        /\ a.geo_country = b.geo_country

\* A pair was recorded whose timestamps are exactly the window apart, while
\* a Direct session of the same device and another country was in the window.
C4_Witness ==
  /\ time_window_seconds > 0
  /\ \E p \in 1..Len(matches) :
       LET a == RowOf(sst_df, matches[p][1])
           b == RowOf(bq_df, matches[p][2])
       IN  /\ MicrosSub(a.session_start_ts, b.session_start_ts)
                = SecondsToMicros(time_window_seconds)
           /\ \E j \in 1..Len(bq_df) :
                /\ bq_df[j].device_category = a.device_category
                /\ bq_df[j].geo_country # a.geo_country
                /\ bq_df[j].session_start_ts = a.session_start_ts

\* C5: with time_window_seconds = 0 every recorded pair has equal
\* session_start_ts, equal device_category and equal geo_country.
C5_ZeroWindowExact ==
  time_window_seconds = 0 =>
    \A p \in 1..Len(matches) :
      LET a == RowOf(sst_df, matches[p][1])
          b == RowOf(bq_df, matches[p][2])
      IN  /\ a.session_start_ts = b.session_start_ts
          /\ SameDeviceCountry(a, b)

\* With window 0 the loop has passed an SST session that had an unmatched
\* Direct session of its device and country 1 us (or more) earlier, and
\* left it unmatched; another SST session was paired.
C5_Witness ==
  /\ time_window_seconds = 0
  /\ HasValue(result)
  /\ Len(matches) = 1
  /\ \E i \in 1..Len(sst_df), j \in 1..Len(bq_df) :
       /\ ~sst_df[i].matched_to_direct
       /\ ~bq_df[j].matched_to_sst
       /\ SameDeviceCountry(sst_df[i], bq_df[j])
       /\ bq_df[j].session_start_ts # sst_df[i].session_start_ts
       /\ MicrosLeq(bq_df[j].session_start_ts, sst_df[i].session_start_ts)

C7_Scenario ==
  (call \in ScenarioCalls /\ HasValue(result)) =>
    /\ result.both = << <<1, 101>> >>
    /\ result.sst_only = <<2>>
    /\ result.direct_only = <<102>>

\* The scenario with its timestamps in seconds has been matched.
C7_Witness ==
  /\ call \in ScenarioCalls
  /\ call.sst = ScenarioA("s")
  /\ HasValue(result)
  /\ Len(result.both) = 1

\* A metric that is the number 0.
IsZero(x) == x.kind = "finite" /\ x.num = 0

\* C8: when get_corrected_session_stats has returned, every metric of the
\* profile of a category with no session is 0.
C8_EmptyCategoryZero ==
  HasValue(stats) =>
    \A category \in {"Both", "SST-only", "Direct-only"} :
      LET count == CASE category = "Both" -> stats.totals.both
                     [] category = "SST-only" -> stats.totals.sst_only
                     [] category = "Direct-only" -> stats.totals.direct_only
          profile == stats.profiles[category]
      IN  count = 0 =>
            /\ IsZero(profile.desktop_pct)
            /\ IsZero(profile.windows_pct)
            /\ IsZero(profile.windows_and_desktop_pct)
            /\ IsZero(profile.purchase_rate)
            /\ IsZero(profile.avg_engagement_sec)

\* C9: the daily table has exactly one row for every date from date_start
\* to date_end, each with a count for Both, Direct-only and SST-only.
C9_DailyDense ==
  HasValue(stats) =>
    /\ DOMAIN stats.daily
         = DayNumber(call.date_start)..DayNumber(call.date_end)
    /\ \A d \in DOMAIN stats.daily :
         DOMAIN stats.daily[d] = {"Both", "Direct-only", "SST-only"}

\* The keys of stats that materialize_session_data reads.
ConsumedKeys == UNION { Artifacts[k].reads : k \in 1..Len(Artifacts) }

\* C10: what get_corrected_session_stats returns has every key
\* materialize_session_data reads, and materialize_session_data does not
\* end with an exception once the statistics are there.
C10_StatsComplete ==
  /\ HasValue(stats) => ConsumedKeys \subseteq DOMAIN stats
  /\ pc # "error"

\* The cache files the current call has written, and all it is to write.
FilesOfRun == { f.file : f \in { g \in cache : g.run = run } }
AllFiles == { Artifacts[k].file : k \in 1..Len(Artifacts) }

\* C11: materialize_session_data ends either with every cache artifact
\* (the parquet files and metadata.json) written by this call, or with an
\* exception and none of them written by this call.
C11_AllOrNothing ==
  /\ pc = "done" => FilesOfRun = AllFiles
  /\ pc = "error" => FilesOfRun = {}

\* The operations of a list of API calls made for the query id.
OpsFor(calls, id) ==
  [k \in 1..Len(SelectSeq(calls, LAMBDA c : c.id = id)) |->
     SelectSeq(calls, LAMBDA c : c.id = id)[k].op]

\* How often an operation occurs in a list of operations.
Occurrences(ops, op) == Cardinality({ k \in 1..Len(ops) : ops[k] = op })

\* C12: in every step of run_athena_query, (a) when the step follows a
\* poll that saw a non-terminal state and more than timeout_seconds have
\* passed since start_time (read just before the first poll), the step
\* calls stop_query_execution for the query id, which is then its only
\* such call, and raises with no results fetched; (b) whenever
\* stop_query_execution has been called, the last poll saw QUEUED or
\* RUNNING; (c) whenever get_query_results has been called, the last poll
\* saw SUCCEEDED and stop_query_execution was not called; (d) nothing is
\* called once the exception is raised.
C12_TimeoutStopsQuery ==
  [][ LET ops == OpsFor(api_calls', query_execution_id')
      IN  /\ (apc = "check_timeout" /\ apc' # apc
                /\ clock - start_time > timeout_seconds * TicksPerSecond) =>
                /\ api_calls' = Append(api_calls,
                      ApiCall("stop_query_execution", query_execution_id))
                /\ Occurrences(ops, "stop_query_execution") = 1
                /\ Occurrences(ops, "get_query_results") = 0
                /\ apc' = "raised"
                /\ raised' # "none"
          /\ Occurrences(ops, "stop_query_execution") > 0 =>
                state' \in NonTerminal
          /\ Occurrences(ops, "get_query_results") > 0 =>
                /\ state' = "SUCCEEDED"
                /\ Occurrences(ops, "stop_query_execution") = 0
          /\ apc = "raised" => api_calls' = api_calls
    ]_vars

\* The wait timed out on the second poll or later with timeout_seconds = 1,
\* and the query had in fact succeeded after that poll.
C12_Witness ==
  /\ apc = "raised"
  /\ raised = "Query timed out"
  /\ timeout_seconds = 1
  /\ query_state = "SUCCEEDED"
  /\ Occurrences(OpsFor(api_calls, query_execution_id), "get_query_execution") >= 2
  /\ Occurrences(OpsFor(api_calls, query_execution_id), "stop_query_execution") = 1

\* C13: the one row kept for a Direct session id has session_start_ts
\* equal to the least event_timestamp over all events of that id.
C13_StartIsSessionMinimum ==
  pc = "loaded" =>
    \A i \in 1..Len(bq_df) :
      bq_df[i].session_start_ts =
        MinTimestamp({ e \in bq_events :
                         e.ga_session_id = bq_df[i].ga_session_id })

\* |a - b| in microseconds.
AbsDiff(a, b) == IF MicrosLeq(b, a) THEN MicrosSub(a, b) ELSE MicrosSub(b, a)

\* The Direct rows that are unmatched in the current state and within the
\* window of SST row i, with its device_category and geo_country.
EligibleRows(i) ==
  { j \in 1..Len(bq_df) :
      /\ ~bq_df[j].matched_to_sst
      /\ WithinSeconds(sst_df[i].session_start_ts, bq_df[j].session_start_ts,
                       time_window_seconds)
      /\ SameDeviceCountry(sst_df[i], bq_df[j]) }

\* C14: every iteration of the matching loop pairs its SST session with an
\* eligible Direct session of least absolute start difference when there
\* is an eligible one, and otherwise records no pair and leaves the SST
\* session unmatched.
C14_ClosestEligible ==
  [][ (pc = "match" /\ idx' = idx + 1) =>
        IF EligibleRows(idx) = {}
        THEN /\ matches' = matches
             /\ ~sst_df'[idx].matched_to_direct
        ELSE \E j \in EligibleRows(idx) :
               /\ matches' = Append(matches, <<sst_df[idx].ga_session_id,
                                               bq_df[j].ga_session_id>>)
               /\ \A k \in EligibleRows(idx) :
                    MicrosLeq(AbsDiff(bq_df[j].session_start_ts,
                                      sst_df[idx].session_start_ts),
                              AbsDiff(bq_df[k].session_start_ts,
                                      sst_df[idx].session_start_ts))
               /\ sst_df'[idx].matched_to_direct
               /\ bq_df'[j].matched_to_sst
    ]_vars

\* A pair was recorded although a Direct session earlier in the table,
\* still unmatched, had the same device and country and was inside the
\* window, but farther in time.
C14_Witness ==
  /\ pc = "match"
  /\ \E p \in 1..Len(matches) :
       LET a == RowOf(sst_df, matches[p][1])
           b == RowOf(bq_df, matches[p][2])
       IN  \E k \in 1..Len(bq_df) :
             /\ bq_df[k].ga_session_id < b.ga_session_id
             /\ ~bq_df[k].matched_to_sst
             /\ SameDeviceCountry(a, bq_df[k])
             /\ WithinSeconds(a.session_start_ts, bq_df[k].session_start_ts,
                              time_window_seconds)
             /\ AbsDiff(bq_df[k].session_start_ts, a.session_start_ts)
                  # AbsDiff(b.session_start_ts, a.session_start_ts)

\* C15: when an iteration records a pair, no eligible Direct row earlier
\* in the table has the same absolute start difference to the SST session
\* as the row that was paired.
C15_TieFirstInOrder ==
  [][ (pc = "match" /\ idx' = idx + 1 /\ Len(matches') = Len(matches) + 1) =>
        \E j \in EligibleRows(idx) :
          /\ matches'[Len(matches')][2] = bq_df[j].ga_session_id
          /\ \A k \in EligibleRows(idx) :
               AbsDiff(bq_df[k].session_start_ts, sst_df[idx].session_start_ts)
                 = AbsDiff(bq_df[j].session_start_ts,
                           sst_df[idx].session_start_ts)
               => j <= k
    ]_vars

\* A pair was recorded with the first of two Direct sessions equally far
\* from the SST session, one before it and one after it.
C15_Witness ==
  \E p \in 1..Len(matches) :
    LET a == RowOf(sst_df, matches[p][1])
        b == RowOf(bq_df, matches[p][2])
    IN  \E k \in 1..Len(bq_df) :
          /\ bq_df[k].ga_session_id > b.ga_session_id
          /\ ~bq_df[k].matched_to_sst
          /\ SameDeviceCountry(a, bq_df[k])
          /\ bq_df[k].session_start_ts # b.session_start_ts
          /\ AbsDiff(bq_df[k].session_start_ts, a.session_start_ts)
               = AbsDiff(b.session_start_ts, a.session_start_ts)

\* C16: in every step idx stays or grows by one, and grows by one in
\* every iteration of the loop; the function returns only when idx has
\* passed the last SST row; matches stays or grows by one pair at its end,
\* and a new pair is of the SST row just visited; a flag that is True in
\* either table stays True.
C16_SinglePass ==
  [][ /\ idx' \in {idx, idx + 1}
      /\ (pc = "match" /\ pc' = "match") =>
            (idx <= Len(sst_df) /\ idx' = idx + 1)
      /\ (pc = "match" /\ pc' = "returned") =>
            (idx = Len(sst_df) + 1 /\ idx' = idx)
      /\ Len(matches') \in {Len(matches), Len(matches) + 1}
      /\ SubSeq(matches', 1, Len(matches)) = matches
      /\ Len(matches') = Len(matches) + 1 =>
            matches'[Len(matches')][1] = sst_df[idx].ga_session_id
      /\ \A i \in 1..Len(sst_df) :
            sst_df[i].matched_to_direct => sst_df'[i].matched_to_direct
      /\ \A j \in 1..Len(bq_df) :
            bq_df[j].matched_to_sst => bq_df'[j].matched_to_sst
    ]_vars

\* The loop has visited both SST rows and recorded two pairs, the second
\* with a Direct row that stands before the partner of the first.
C16_Witness ==
  /\ pc = "returned"
  /\ idx = Len(sst_df) + 1
  /\ Len(matches) = 2
  /\ matches[1][1] < matches[2][1]
  /\ matches[1][2] > matches[2][2]

\* The pairs (SST row, Direct row) of the fetched tables that satisfy the
\* window, device_category and geo_country conditions.
EligiblePairs ==
  { p \in (1..Len(call.sst)) \X (1..Len(call.direct)) :
      /\ WithinSeconds(call.sst[p[1]].session_start_ts,
                       call.direct[p[2]].session_start_ts, time_window_seconds)
      /\ SameDeviceCountry(call.sst[p[1]], call.direct[p[2]]) }

\* A set of pairs in which no row occurs twice.
IsMatching(M) ==
  \A p, q \in M : (p[1] = q[1] \/ p[2] = q[2]) => p = q

\* The size of a maximum-cardinality 1:1 matching of the eligible pairs.
MaxMatchingSize ==
  CHOOSE n \in 0..Len(call.sst) :
    /\ \E M \in SUBSET EligiblePairs : IsMatching(M) /\ Cardinality(M) = n
    /\ \A M \in SUBSET EligiblePairs : IsMatching(M) => Cardinality(M) <= n

\* Two SST and two Direct sessions; the first SST session is eligible with
\* both Direct sessions, the second with one of them only, and that one is
\* the first SST session's best match (closer, or as close and earlier in
\* the table).
Adversarial ==
  /\ Len(call.sst) = 2
  /\ Len(call.direct) = 2
  /\ \E j, l \in 1..2 :
       /\ j # l
       /\ <<1, j>> \in EligiblePairs
       /\ <<1, l>> \in EligiblePairs
       /\ <<2, j>> \in EligiblePairs
       /\ <<2, l>> \notin EligiblePairs
       /\ LET dj == AbsDiff(call.direct[j].session_start_ts,
                            call.sst[1].session_start_ts)
              dl == AbsDiff(call.direct[l].session_start_ts,
                            call.sst[1].session_start_ts)
          IN  (dj # dl /\ MicrosLeq(dj, dl)) \/ (dj = dl /\ j < l)

C18_MaximalMatching ==
  HasValue(result) =>
    \A s \in Members(result.sst_only), d \in Members(result.direct_only) :
      ~ /\ WithinSeconds(RowOf(sst_df, s).session_start_ts,
                         RowOf(bq_df, d).session_start_ts, time_window_seconds)
        /\ SameDeviceCountry(RowOf(sst_df, s), RowOf(bq_df, d))

\* With the default window the matcher has returned leaving unmatched an
\* SST session and a Direct session of its device and country that start
\* 300 s and 1 us apart, and another pair of unmatched sessions that are
\* within the window but differ in device or country.
C18_Witness ==
  /\ HasValue(result)
  /\ time_window_seconds = DefaultTimeWindowSeconds
  /\ \E s \in Members(result.sst_only), d \in Members(result.direct_only) :
       /\ SameDeviceCountry(RowOf(sst_df, s), RowOf(bq_df, d))
       /\ AbsDiff(RowOf(sst_df, s).session_start_ts,
                  RowOf(bq_df, d).session_start_ts)
            = Micros(DefaultTimeWindowSeconds, 1)
  /\ \E s \in Members(result.sst_only), d \in Members(result.direct_only) :
       /\ ~SameDeviceCountry(RowOf(sst_df, s), RowOf(bq_df, d))
       /\ WithinSeconds(RowOf(sst_df, s).session_start_ts,
                        RowOf(bq_df, d).session_start_ts, time_window_seconds)

\* The number of rows of a table with the label 'Both'.
BothCount(df) == Cardinality({ i \in 1..Len(df) : df[i].session_category = "Both" })

\* C19: before and after every iteration of the matching loop an SST row
\* is labelled 'Both' when matched_to_direct is True and 'SST-only'
\* otherwise, a Direct row is labelled 'Both' when matched_to_sst is True
\* and 'Direct-only' otherwise, and the 'Both' rows of the SST table, the
\* 'Both' rows of the Direct table and the pairs of matches are equally
\* many.
C19_LabelsFollowFlags ==
  /\ \A i \in 1..Len(sst_df) :
       sst_df[i].session_category =
         (IF sst_df[i].matched_to_direct THEN "Both" ELSE "SST-only")
  /\ \A j \in 1..Len(bq_df) :
       bq_df[j].session_category =
         (IF bq_df[j].matched_to_sst THEN "Both" ELSE "Direct-only")
  /\ BothCount(sst_df) = Len(matches)
  /\ BothCount(bq_df) = Len(matches)

\* In the middle of the loop: the first of two SST rows has been paired,
\* the second is still to be visited, and a Direct row is unmatched.
C19_Witness ==
  /\ pc = "match"
  /\ Len(sst_df) = 2
  /\ idx = 2
  /\ Len(matches) = 1
  /\ BothCount(sst_df) = 1
  /\ \E j \in 1..Len(bq_df) : bq_df[j].session_category = "Direct-only"

\* A row without its matched flag and category label: the session summary.
SummaryOf(row) ==
  [column \in DOMAIN row \ {"matched_to_sst", "matched_to_direct",
                             "session_category"} |-> row[column]]

\* The positions at which two tables of equal length differ.
ChangedRows(before, after) == { k \in 1..Len(before) : after[k] # before[k] }

\* C20: in every step of fuzzy_match_sessions from the entry of the loop
\* to the return, both tables keep their length, and every row keeps its
\* position and all its columns other than the matched flag and the
\* category label; a step that records no pair changes no row at all, and
\* a step that records a pair changes only the SST row and the Direct row
\* of that pair.
C20_SummariesReadOnly ==
  [][ pc = "match" =>
        /\ Len(sst_df') = Len(sst_df)
        /\ Len(bq_df') = Len(bq_df)
        /\ \A i \in 1..Len(sst_df) : SummaryOf(sst_df'[i]) = SummaryOf(sst_df[i])
        /\ \A j \in 1..Len(bq_df) : SummaryOf(bq_df'[j]) = SummaryOf(bq_df[j])
        /\ IF Len(matches') = Len(matches)
           THEN /\ ChangedRows(sst_df, sst_df') = {}
                /\ ChangedRows(bq_df, bq_df') = {}
           ELSE LET pair == matches'[Len(matches')]
                IN  /\ \A i \in ChangedRows(sst_df, sst_df') :
                         sst_df[i].ga_session_id = pair[1]
                    /\ \A j \in ChangedRows(bq_df, bq_df') :
                         bq_df[j].ga_session_id = pair[2]
                    /\ Cardinality(ChangedRows(sst_df, sst_df')) <= 1
                    /\ Cardinality(ChangedRows(bq_df, bq_df')) <= 1
    ]_vars

\* The loop is over two SST and two Direct rows with one pair recorded,
\* and every row still holds, in its place, what the warehouse returned.
C20_Witness ==
  /\ pc = "match"
  /\ idx = Len(sst_df) + 1
  /\ Len(sst_df) = 2
  /\ Len(bq_df) = 2
  /\ Len(matches) = 1
  /\ \A i \in 1..Len(sst_df) :
       \A column \in DOMAIN call.sst[i] : sst_df[i][column] = call.sst[i][column]
  /\ \A j \in 1..Len(bq_df) :
       \A column \in DOMAIN call.direct[j] :
         bq_df[j][column] = call.direct[j][column]

\* A country value with surrounding blanks removed and in lower case, for
\* the spellings that occur in the tables explored.
NormalizedCountry(c) ==
  CASE c \in {"AU", "au", " AU "} -> "au"
    [] c \in {"NZ", "nz", " NZ "} -> "nz"
    [] OTHER -> c

\* C21: when fuzzy_match_sessions has returned, no unmatched SST session
\* and unmatched Direct session are within the window of each other with
\* equal device_category and with geo_country values that are equal after
\* normalisation of case and surrounding blanks (such sessions are
\* eligible, so the loop would have paired the SST session).
C21_CountryNormalised ==
  HasValue(result) =>
    \A s \in Members(result.sst_only), d \in Members(result.direct_only) :
      ~ /\ WithinSeconds(RowOf(sst_df, s).session_start_ts,
                         RowOf(bq_df, d).session_start_ts, time_window_seconds)
        /\ RowOf(sst_df, s).device_category = RowOf(bq_df, d).device_category
        /\ NormalizedCountry(RowOf(sst_df, s).geo_country)
             = NormalizedCountry(RowOf(bq_df, d).geo_country)

\* C22: the 'Both' profile and the 'Both' column of the daily table are
\* computed from the 'Both' rows of one table: all five metrics and all
\* daily counts from the SST rows, or all of them from the Direct rows.
C22_BothFromOneSource ==
  HasValue(stats) =>
    \E source \in {sst_df, bq_df} :
      LET rows == RowsOfCategory(source, "Both")
      IN  /\ stats.profiles["Both"] = Profile(rows, rows)
          /\ \A d \in DOMAIN stats.daily \cup GroupDates(rows) :
               /\ d \in DOMAIN stats.daily
               /\ stats.daily[d]["Both"] = GroupSize(rows, d)

\* The sum of one column of the daily table over all its dates.
RECURSIVE ColumnSum(_, _, _)
ColumnSum(daily, dates, column) ==
  IF dates = {} THEN 0
  ELSE LET d == CHOOSE x \in dates : TRUE
       IN  daily[d][column] + ColumnSum(daily, dates \ {d}, column)

RequestedDays(date_start, date_end) ==
  { date \in WarehouseDays :
      /\ DayNumber(date_start) <= DayNumber(date)
      /\ DayNumber(date) <= DayNumber(date_end) }

\* C24: for every requested range date_start <= date_end, once both
\* queries of fuzzy_match_sessions have run, the SST (Athena) partition
\* filter has selected exactly the days from date_start to date_end, the
\* same days the Direct (BigQuery) table-suffix filter has selected, also
\* when the range crosses a month or year boundary.
C24_SameDaysBothSources ==
  (HasValue(hout) /\ "sst_days" \in DOMAIN hout) =>
    /\ hout.sst_days = RequestedDays(hcall.date_start, hcall.date_end)
    /\ hout.sst_days = hout.direct_days

\* C25: the status-polling loop of the Athena fetch inside
\* fuzzy_match_sessions ends after a bounded number of polls: once the
\* polls explored have been made the function is no longer waiting, it
\* has raised or gone on to the results, also for a query that stays
\* QUEUED or RUNNING.
C25_BoundedWait ==
  (reader = "fuzzy_match_sessions" /\ Polls >= MaxPolls) => apc # "poll"

\* The rows of all pages, in page order.
RECURSIVE RowsOfPages(_)
RowsOfPages(ps) ==
  IF ps = <<>> THEN <<>> ELSE ps[1].Rows \o RowsOfPages(Tail(ps))

\* The first page that carries no NextToken.
LastPageRead(ps) ==
  CHOOSE i \in 1..Len(ps) :
    /\ "NextToken" \notin DOMAIN ps[i]
    /\ \A j \in 1..(i - 1) : "NextToken" \in DOMAIN ps[j]

\* C26: when one of the three paginated readers has returned, the rows it
\* collected are exactly the data rows of all pages in page order, that
\* is all rows but the header row of the first page, none dropped and
\* none twice, and it has asked for the pages up to the first one without
\* a NextToken and for no page more.
C26_AllDataRowsOnce ==
  (reader \in Readers /\ apc = "returned") =>
    /\ data = Collected(Rest(RowsOfPages(pages)))
    /\ Len(data) = Len(RowsOfPages(pages)) - 1
    /\ Len(SelectSeq(api_calls, LAMBDA c : c.op = "get_query_results"))
         = LastPageRead(pages)

\* A reader has returned from a result of three pages, the first holding
\* the header alone and a later one holding data rows.
C26_Witness ==
  /\ reader = "fuzzy_match_sessions"
  /\ apc = "returned"
  /\ Len(pages) = 3
  /\ Len(pages[1].Rows) = 1
  /\ Len(pages[3].Rows) >= 1
  /\ Len(data) = 2

\* C27: materialized results are keyed by their query parameters: no step
\* of a materialize_session_data call removes or changes a cached file
\* that was written for a date range other than the range of that call.
C27_CacheKeyedByRange ==
  [][\A f \in cache :
       (f.date_start # call'.date_start \/ f.date_end # call'.date_end)
         => f \in cache']_vars

\* The calls of the three hypothesis tests.
HypothesisTests ==
  {"test_hypothesis_1_adblocker", "test_hypothesis_2_corporate",
   "test_hypothesis_3_china"}

\* C28: the evidence score of a hypothesis test is a multiple of 0.5
\* between 0 and the maximum the test prints (3 for hypotheses 1 and 2,
\* 2.5 for hypothesis 3); each maximum is the score of some call; and the
\* confidence label follows the score: for hypotheses 1 and 2 HIGH iff
\* score >= 2.5, MEDIUM iff 1.5 <= score < 2.5, LOW otherwise; for
\* hypothesis 3 HIGH iff score >= 2, MEDIUM iff 1 <= score < 2, LOW
\* otherwise.
C28_ScoresAndLabels ==
  /\ (HasValue(hcall) /\ hcall.fn \in HypothesisTests /\ HasValue(hout)) =>
       LET score == hout.evidence_score
           high  == IF hcall.fn = "test_hypothesis_3_china" THEN 20 ELSE 25
           mid   == IF hcall.fn = "test_hypothesis_3_china" THEN 10 ELSE 15
       IN  /\ score % ScoreHalf = 0
           /\ 0 <= score /\ score <= hout.out_of
           /\ hout.out_of = IF hcall.fn = "test_hypothesis_3_china"
                            THEN 25 ELSE 30
           /\ hout.confidence \in {"HIGH", "MEDIUM", "LOW"}
           /\ hout.confidence = "HIGH" <=> score >= high
           /\ hout.confidence = "MEDIUM" <=> (mid <= score /\ score < high)
  /\ \E c \in AdblockerCalls : EvidenceScore1(c.sst_only_df, c.both_df) = 30
  /\ \E c \in CorporateCalls : EvidenceScore2(c.direct_only_df, c.both_df) = 30
  /\ \E c \in ChinaCalls :
       EvidenceScore3(c.direct_only_df, c.sst_only_df, c.both_df) = 25

\* Hypothesis 3 has returned its maximum, 2.5, with the label HIGH.
C28_Witness ==
  /\ HasValue(hcall)
  /\ hcall.fn = "test_hypothesis_3_china"
  /\ HasValue(hout)
  /\ hout.evidence_score = 25
  /\ hout.confidence = "HIGH"

\* C29: in get_session_sets the 'both', 'direct_only' and 'sst_only' id
\* sets are pairwise disjoint and cover the union of both sources; every
\* Direct row is labelled 'both' or 'direct_only' and every SST row
\* 'both' or 'sst_only', never 'unknown'; and |both| + |direct_only| is
\* the number of Direct sessions, |both| + |sst_only| the number of SST
\* sessions.
C29_SessionSetsPartition ==
  (HasValue(hcall) /\ hcall.fn = "get_session_sets" /\ HasValue(hout)) =>
    /\ hout.both_ids \cap hout.direct_only_ids = {}
    /\ hout.both_ids \cap hout.sst_only_ids = {}
    /\ hout.direct_only_ids \cap hout.sst_only_ids = {}
    /\ hout.both_ids \cup hout.direct_only_ids \cup hout.sst_only_ids
         = IdSet(hcall.bq_sessions) \cup IdSet(hcall.sst_sessions)
    /\ Cardinality(hout.both_ids) + Cardinality(hout.direct_only_ids)
         = Len(hcall.bq_sessions)
    /\ Cardinality(hout.both_ids) + Cardinality(hout.sst_only_ids)
         = Len(hcall.sst_sessions)
    /\ "bq_category" \in DOMAIN hout =>
         /\ \A i \in 1..Len(hcall.bq_sessions) :
              hout.bq_category[i] \in {"both", "direct_only"}
         /\ \A i \in 1..Len(hcall.sst_sessions) :
              hout.sst_category[i] \in {"both", "sst_only"}
         /\ Len(hout.both_direct_df) + Len(hout.direct_only_df)
              = Len(hcall.bq_sessions)
         /\ Len(hout.both_direct_df) + Len(hout.sst_only_df)
              = Len(hcall.sst_sessions)

\* get_session_sets has labelled frames with a session in each of the
\* three categories.
C29_Witness ==
  /\ HasValue(hcall)
  /\ hcall.fn = "get_session_sets"
  /\ HasValue(hout)
  /\ "bq_category" \in DOMAIN hout
  /\ hout.both_ids # {}
  /\ hout.direct_only_ids # {}
  /\ hout.sst_only_ids # {}

\* C30: transform_device_category and the SQL CASE expression for
\* device_category give the same category for every non-empty user agent,
\* and each gives one of desktop, mobile, tablet.
C30_SameDeviceCategory ==
  (/\ HasValue(hcall)
   /\ hcall.fn = "transform_device_category"
   /\ ~hcall.user_agent.empty
   /\ HasValue(hout)
   /\ "sql" \in DOMAIN hout) =>
    /\ hout.python = hout.sql
    /\ hout.python \in {"desktop", "mobile", "tablet"}
    /\ hout.sql \in {"desktop", "mobile", "tablet"}

====
